---- MODULE Spec2Model ----
(***************************************************************************)
(* A model of the WhatsApp Flow endpoint of k-flow-apptbook-v1:            *)
(*   src/src/server.js      the POST handler and the HMAC check            *)
(*   src/src/encryption.js  decryptRequest / encryptResponse, AES-128-GCM  *)
(*   src/unnamed/part_000   decryptRequest / encryptResponse, AES-CBC      *)
(*   src/src/flow.js        getNextScreen                                  *)
(*                                                                         *)
(* Bytes are naturals 0..255, buffers are sequences of bytes, JavaScript   *)
(* strings are sequences of one-character strings (wire text) or of code   *)
(* points (decoded text).  The cryptographic primitives of node:crypto are *)
(* replaced by small keyed functions that keep the properties the code     *)
(* relies on (see each definition).                                        *)
(***************************************************************************)
EXTENDS Integers, Sequences, FiniteSets, TLC

(***************************************************************************)
(* Bounds of the model.                                                    *)
(***************************************************************************)
\* longest raw request body (bytes) the signature check is exercised on
MaxBodyLen == 2

(***************************************************************************)
(* Buffers and text.                                                       *)
(***************************************************************************)
Min(a, b) == IF a < b THEN a ELSE b

\* buf.subarray(from) / text.slice(from), 0-based start as in JavaScript
DropFirst(s, n) ==
  IF n <= 0 THEN s
  ELSE IF n >= Len(s) THEN <<>>
  ELSE SubSeq(s, n + 1, Len(s))

TakeFirst(s, n) == IF n <= 0 THEN <<>> ELSE SubSeq(s, 1, Min(n, Len(s)))

\* String.prototype.startsWith
StartsWith(s, p) == Len(s) >= Len(p) /\ SubSeq(s, 1, Len(p)) = p

HexLower == <<"0","1","2","3","4","5","6","7","8","9","a","b","c","d","e","f">>

HexUpper == <<"0","1","2","3","4","5","6","7","8","9","A","B","C","D","E","F">>

\* the value of one hex digit, -1 when the character is none
HexVal(c) ==
  IF \E i \in 1..16 : HexLower[i] = c
  THEN (CHOOSE i \in 1..16 : HexLower[i] = c) - 1
  ELSE IF \E i \in 1..16 : HexUpper[i] = c
       THEN (CHOOSE i \in 1..16 : HexUpper[i] = c) - 1
       ELSE -1

RECURSIVE HexDecodeFrom(_, _)
\* Buffer.from(text, "hex") from the i-th pair on: decoding stops at the
\* first pair that is not two hex digits, and a trailing single digit is
\* dropped
HexDecodeFrom(s, i) ==
  IF 2 * i > Len(s) THEN <<>>
  ELSE LET hi == HexVal(s[2 * i - 1])
           lo == HexVal(s[2 * i])
       IN IF hi < 0 \/ lo < 0 THEN <<>>
          ELSE <<16 * hi + lo>> \o HexDecodeFrom(s, i + 1)

HexDecode(s) == HexDecodeFrom(s, 1)

\* digest("hex"): two lower-case digits per byte
HexEncode(b) ==
  [k \in 1..(2 * Len(b)) |->
     HexLower[(IF k % 2 = 1 THEN (b[(k + 1) \div 2]) \div 16
                            ELSE (b[k \div 2]) % 16) + 1]]

\* how many continuation bytes a UTF-8 lead byte announces (0: not a lead)
Utf8Need(b0) ==
  IF b0 >= 194 /\ b0 <= 223 THEN 1
  ELSE IF b0 >= 224 /\ b0 <= 239 THEN 2
  ELSE IF b0 >= 240 /\ b0 <= 244 THEN 3
  ELSE 0

\* is byte c acceptable as the k-th continuation byte after lead b0
Utf8ContOk(b0, k, c) ==
  LET lo == IF k = 1 /\ b0 = 224 THEN 160
            ELSE IF k = 1 /\ b0 = 240 THEN 144 ELSE 128
      hi == IF k = 1 /\ b0 = 237 THEN 159
            ELSE IF k = 1 /\ b0 = 244 THEN 143 ELSE 191
  IN c >= lo /\ c <= hi

RECURSIVE Utf8ContRun(_, _, _, _)
\* the number of acceptable continuation bytes at b[i+1..], at most need
Utf8ContRun(b, i, b0, k) ==
  IF k > Utf8Need(b0) \/ i + k > Len(b) THEN k - 1
  ELSE IF Utf8ContOk(b0, k, b[i + k]) THEN Utf8ContRun(b, i, b0, k + 1)
  ELSE k - 1

RECURSIVE Utf8DecodeFrom(_, _)
\* buf.toString("utf8"): every maximal ill-formed subsequence becomes one
\* U+FFFD, so the conversion is not injective on arbitrary bytes
Utf8DecodeFrom(b, i) ==
  IF i > Len(b) THEN <<>>
  ELSE LET b0 == b[i]
           need == Utf8Need(b0)
           run == Utf8ContRun(b, i, b0, 1)
       IN IF b0 < 128 THEN <<b0>> \o Utf8DecodeFrom(b, i + 1)
          ELSE IF need = 0 THEN <<65533>> \o Utf8DecodeFrom(b, i + 1)
          ELSE IF run < need THEN <<65533>> \o Utf8DecodeFrom(b, i + 1 + run)
          ELSE IF need = 1
               THEN <<(b0 - 192) * 64 + (b[i + 1] - 128)>>
                    \o Utf8DecodeFrom(b, i + 2)
          ELSE IF need = 2
               THEN <<(b0 - 224) * 4096 + (b[i + 1] - 128) * 64
                      + (b[i + 2] - 128)>> \o Utf8DecodeFrom(b, i + 3)
          ELSE <<(b0 - 240) * 262144 + (b[i + 1] - 128) * 4096
                 + (b[i + 2] - 128) * 64 + (b[i + 3] - 128)>>
               \o Utf8DecodeFrom(b, i + 4)

Utf8Decode(b) == Utf8DecodeFrom(b, 1)

\* the UTF-8 bytes of one code point
Utf8EncodeCp(cp) ==
  IF cp < 128 THEN <<cp>>
  ELSE IF cp < 2048 THEN <<192 + (cp \div 64), 128 + (cp % 64)>>
  ELSE IF cp < 65536
       THEN <<224 + (cp \div 4096), 128 + ((cp \div 64) % 64),
              128 + (cp % 64)>>
  ELSE <<240 + (cp \div 262144), 128 + ((cp \div 4096) % 64),
         128 + ((cp \div 64) % 64), 128 + (cp % 64)>>

RECURSIVE Utf8EncodeFrom(_, _)
Utf8EncodeFrom(s, i) ==
  IF i > Len(s) THEN <<>>
  ELSE Utf8EncodeCp(s[i]) \o Utf8EncodeFrom(s, i + 1)

\* Buffer.from(text, "utf8"), as hmac.update(text) and cipher.update(text,
\* "utf8") encode their argument
Utf8Encode(s) == Utf8EncodeFrom(s, 1)

Base64Chars ==
  <<"A","B","C","D","E","F","G","H","I","J","K","L","M","N","O","P",
    "Q","R","S","T","U","V","W","X","Y","Z","a","b","c","d","e","f",
    "g","h","i","j","k","l","m","n","o","p","q","r","s","t","u","v",
    "w","x","y","z","0","1","2","3","4","5","6","7","8","9","+","/">>

\* the six bits of one base64 character (the URL-safe "-" and "_" are
\* accepted too), -1 when the character is none
Base64Val(c) ==
  IF \E i \in 1..64 : Base64Chars[i] = c
  THEN (CHOOSE i \in 1..64 : Base64Chars[i] = c) - 1
  ELSE IF c = "-" THEN 62
  ELSE IF c = "_" THEN 63
  ELSE -1

RECURSIVE Base64Sextets(_, _)
\* the six-bit values of a base64 text: characters outside the alphabet are
\* skipped and the padding character ends the data
Base64Sextets(s, i) ==
  IF i > Len(s) \/ s[i] = "=" THEN <<>>
  ELSE IF Base64Val(s[i]) < 0 THEN Base64Sextets(s, i + 1)
  ELSE <<Base64Val(s[i])>> \o Base64Sextets(s, i + 1)

RECURSIVE Base64Bytes(_, _)
\* four six-bit values make three bytes; a tail of two makes one byte, a
\* tail of three makes two, a tail of one makes none
Base64Bytes(v, i) ==
  LET left == Len(v) - i + 1
  IN IF left <= 1 THEN <<>>
     ELSE IF left = 2
          THEN <<(v[i] * 4) + (v[i + 1] \div 16)>>
     ELSE IF left = 3
          THEN <<(v[i] * 4) + (v[i + 1] \div 16),
                 ((v[i + 1] % 16) * 16) + (v[i + 2] \div 4)>>
     ELSE <<(v[i] * 4) + (v[i + 1] \div 16),
            ((v[i + 1] % 16) * 16) + (v[i + 2] \div 4),
            ((v[i + 2] % 4) * 64) + v[i + 3]>> \o Base64Bytes(v, i + 4)

\* Buffer.from(text, "base64")
Base64Decode(s) == Base64Bytes(Base64Sextets(s, 1), 1)

RECURSIVE Base64EncodeFrom(_, _)
\* buf.toString("base64") from the i-th byte on
Base64EncodeFrom(b, i) ==
  LET left == Len(b) - i + 1
      ch(n) == Base64Chars[n + 1]
  IN IF left <= 0 THEN <<>>
     ELSE IF left = 1
          THEN <<ch(b[i] \div 4), ch((b[i] % 4) * 16), "=", "=">>
     ELSE IF left = 2
          THEN <<ch(b[i] \div 4),
                 ch(((b[i] % 4) * 16) + (b[i + 1] \div 16)),
                 ch((b[i + 1] % 16) * 4), "=">>
     ELSE <<ch(b[i] \div 4),
            ch(((b[i] % 4) * 16) + (b[i + 1] \div 16)),
            ch(((b[i + 1] % 16) * 4) + (b[i + 2] \div 64)),
            ch(b[i + 2] % 64)>> \o Base64EncodeFrom(b, i + 3)

Base64Encode(b) == Base64EncodeFrom(b, 1)

(***************************************************************************)
(* Request authentication: src/src/server.js.                              *)
(***************************************************************************)
\* the values APP_SECRET takes in the model: unset, or one of two secrets
NoSecret == <<>>

SecretA == <<115, 49>>

SecretB == <<115, 50>>

RECURSIVE SumBytes(_, _)
SumBytes(b, i) == IF i > Len(b) THEN 0 ELSE b[i] + SumBytes(b, i + 1)

\* the digest length of SHA-256, in bytes
DigestLen == 32

\* crypto.createHmac("sha256", key).update(msg).digest(): a keyed function
\* that is injective in msg for messages shorter than the digest (the
\* message is embedded byte by byte, the last byte carries its length), and
\* that differs between the two secrets.  Stands for the collision
\* resistance of HMAC-SHA256, the one property the check relies on.
HmacSha256(key, msg) ==
  LET k == SumBytes(key, 1) % 256
  IN [j \in 1..DigestLen |->
        IF j = DigestLen THEN (Len(msg) + k) % 256
        ELSE IF j <= Len(msg) THEN (msg[j] + (7 * j) + k) % 256
        ELSE ((11 * j) + k) % 256]

\* express.json's verify callback: req.rawBody = buf?.toString(encoding ||
\* "utf8"); the raw bytes are kept as decoded text, not as bytes
RawBodyOf(buf) == Utf8Decode(buf)

SignaturePrefix == <<"s","h","a","2","5","6","=">>

\* crypto.timingSafeEqual(a, b): throws on buffers of different length
TimingSafeEqual(a, b) ==
  IF Len(a) # Len(b) THEN "throw" ELSE IF a = b THEN "true" ELSE "false"

\* lines 163-180 of isRequestSignatureValid: the signature of the header
\* against the digest of req.rawBody
SignatureMatches(secret, header, rawBody) ==
  LET signatureBuffer == HexDecode(DropFirst(header.value, 7))
      digestString == HexEncode(HmacSha256(secret, Utf8Encode(rawBody)))
      digestBuffer == HexDecode(digestString)
  IN IF Len(signatureBuffer) # Len(digestBuffer) THEN "false"
     ELSE TimingSafeEqual(digestBuffer, signatureBuffer)

\* a faulty variant: the header is verified with an empty secret when no
\* secret is configured
IsRequestSignatureValidNoSkip(secret, header, rawBody) ==
  IF ~header.present \/ ~StartsWith(header.value, SignaturePrefix)
  THEN "false"
  ELSE SignatureMatches(secret, header, rawBody)

\* a faulty variant: the first seven characters of a header are dropped
\* whatever they are
IsRequestSignatureValidAnyPrefix(secret, header, rawBody) ==
  IF secret = NoSecret THEN "true"
  ELSE IF ~header.present THEN "false"
  ELSE SignatureMatches(secret, header, rawBody)

\* isRequestSignatureValid(req): "true", "false", or "throw" when an
\* exception escapes.  header is the x-hub-signature-256 header (present or
\* not), rawBody is req.rawBody
IsRequestSignatureValid(secret, header, rawBody) ==
  IF secret = NoSecret THEN "true"
  ELSE IF ~header.present \/ ~StartsWith(header.value, SignaturePrefix)
       THEN "false"
  ELSE SignatureMatches(secret, header, rawBody)

\* what the sender of a request puts in the header: "sha256=" and the hex
\* HMAC-SHA256 of the raw bytes of the body
SignatureFor(secret, bytes) ==
  [present |-> TRUE,
   value |-> SignaturePrefix \o HexEncode(HmacSha256(secret, bytes))]

NoHeader == [present |-> FALSE, value |-> <<>>]

(***************************************************************************)
(* Results and errors.                                                     *)
(***************************************************************************)
\* a call that returned v
Ok(v) == [ok |-> TRUE, value |-> v]

\* a call that threw e
Throw(e) == [ok |-> FALSE, error |-> e]

\* an exception: its class, the statusCode of a FlowEndpointException (0
\* for any other class), the message its throw site gives it, the message
\* of the error it wraps ("" when it wraps none) and its code property
Err(class, statusCode, message, cause, code) ==
  [class |-> class, statusCode |-> statusCode, message |-> message,
   cause |-> cause, code |-> code]

\* new FlowEndpointException(statusCode, message)
FlowEndpointException(statusCode, message) ==
  Err("FlowEndpointException", statusCode, message, "", "")

\* what node throws when a buffer is built from a value that is no string
InvalidArgType ==
  Err("TypeError", 0, "The first argument must be of type string", "",
      "ERR_INVALID_ARG_TYPE")

\* the text the cipher's authentication failure carries
AuthFailedMessage == "Unsupported state or unable to authenticate data"

(***************************************************************************)
(* JavaScript values of the fields of the request body.                    *)
(***************************************************************************)
Undefined == [t |-> "undefined", s |-> <<>>]

Str(s) == [t |-> "string", s |-> s]

\* a value that is neither a string nor falsy, such as the number 5
NonString == [t |-> "number", s |-> <<>>]

\* !v
Falsy(v) == v.t = "undefined" \/ (v.t = "string" /\ v.s = <<>>)

\* v?.substring(0, 50) throws when v is neither nullish nor a string
OptionalSubstringThrows(v) == v.t = "number"

(***************************************************************************)
(* node:crypto, asymmetric part.  RSA-OAEP is replaced by a tagged copy:   *)
(* a ciphertext names the key pair and the OAEP hash it was made with and  *)
(* carries the data; decryption succeeds exactly when both match.          *)
(***************************************************************************)
\* the key pair whose private half the key file holds, and another one
ServerKeyPair == 1

OtherKeyPair == 2

\* the longest ciphertext the private key accepts (the modulus length)
RsaModulusLen == 40

HashCode(h) == IF h = "sha256" THEN 2 ELSE 1

\* what a client computes: publicEncrypt under a key pair and an OAEP hash
RsaOaepEncrypt(pair, oaepHash, data) == <<pair, HashCode(oaepHash)>> \o data

\* crypto.privateDecrypt({key, padding: OAEP, oaepHash}, buffer)
PrivateDecrypt(key, oaepHash, buffer) ==
  IF Len(buffer) > RsaModulusLen
  THEN Throw(Err("Error", 0, "data too large for modulus", "",
                 "ERR_OSSL_RSA_DATA_GREATER_THAN_MOD_LEN"))
  ELSE IF Len(buffer) < 2 \/ buffer[1] # key \/ buffer[2] # HashCode(oaepHash)
  THEN Throw(Err("Error", 0, "oaep decoding error", "",
                 "ERR_OSSL_RSA_OAEP_DECODING_ERROR"))
  ELSE Ok(DropFirst(buffer, 2))

(***************************************************************************)
(* node:crypto, symmetric part.  AES is replaced by byte-wise addition of  *)
(* key material modulo 256; the modes keep their structure: CBC chains     *)
(* each block on the previous ciphertext block (the IV for the first) and  *)
(* pads to the block size, GCM is a stream under key and IV followed by a  *)
(* 16-byte tag over key, IV and ciphertext.                                *)
(***************************************************************************)
BlockSize == 16

TagLength == 16

\* the i-th byte of a buffer read cyclically
Cyc(b, i) == b[((i - 1) % Len(b)) + 1]

\* the key length in bytes an algorithm name demands
KeyLenOf(algo) ==
  IF algo \in {"aes-128-cbc", "aes-128-gcm"} THEN 16
  ELSE IF algo = "aes-192-cbc" THEN 24
  ELSE 32

InvalidKeyLength ==
  Err("RangeError", 0, "Invalid key length", "", "ERR_CRYPTO_INVALID_KEYLEN")

InvalidIv ==
  Err("TypeError", 0, "Invalid initialization vector", "",
      "ERR_CRYPTO_INVALID_IV")

\* crypto.createCipheriv / createDecipheriv(algo, key, iv): the checks made
\* when the cipher object is created.  CBC takes an IV of one block, GCM
\* an IV of any length but zero
CreateCipherError(algo, key, iv) ==
  IF Len(key) # KeyLenOf(algo) THEN Throw(InvalidKeyLength)
  ELSE IF algo \in {"aes-128-gcm"} /\ Len(iv) = 0 THEN Throw(InvalidIv)
  ELSE IF algo \notin {"aes-128-gcm"} /\ Len(iv) # BlockSize
       THEN Throw(InvalidIv)
  ELSE Ok(algo)

\* PKCS#7: 1..16 bytes, each holding their number
Pkcs7Pad(p) ==
  LET n == BlockSize - (Len(p) % BlockSize)
  IN p \o [i \in 1..n |-> n]

RECURSIVE CbcEncryptFrom(_, _, _, _)
\* the ciphertext of p[i..], given the ciphertext so far
CbcEncryptFrom(key, iv, p, c) ==
  IF Len(c) = Len(p) THEN c
  ELSE LET n == Len(c) + 1
           prev == IF n <= BlockSize THEN iv[n] ELSE c[n - BlockSize]
       IN CbcEncryptFrom(key, iv, p,
                         Append(c, (p[n] + prev + Cyc(key, n)) % 256))

\* cipher.update(p) ++ cipher.final() of a CBC cipher with auto padding
CbcEncrypt(key, iv, p) == CbcEncryptFrom(key, iv, Pkcs7Pad(p), <<>>)

\* decipher.update(c) ++ decipher.final() without padding removal; c is a
\* whole number of blocks
CbcDecryptRaw(key, iv, c) ==
  [n \in 1..Len(c) |->
     LET prev == IF n <= BlockSize THEN iv[n] ELSE c[n - BlockSize]
     IN (c[n] + 512 - prev - Cyc(key, n)) % 256]

WrongFinalBlockLength ==
  Err("Error", 0, "wrong final block length", "",
      "ERR_OSSL_WRONG_FINAL_BLOCK_LENGTH")

BadDecrypt == Err("Error", 0, "bad decrypt", "", "ERR_OSSL_BAD_DECRYPT")

\* is the tail of p a PKCS#7 padding
Pkcs7Ok(p) ==
  /\ Len(p) > 0
  /\ p[Len(p)] >= 1 /\ p[Len(p)] <= BlockSize
  /\ \A i \in (Len(p) - p[Len(p)] + 1)..Len(p) : p[i] = p[Len(p)]

\* decipher.update(c) ++ decipher.final() of a CBC decipher, setAutoPadding
\* as given
CbcDecrypt(key, iv, c, autoPadding) ==
  IF Len(c) % BlockSize # 0 THEN Throw(WrongFinalBlockLength)
  ELSE IF ~autoPadding THEN Ok(CbcDecryptRaw(key, iv, c))
  ELSE IF Len(c) = 0 THEN Throw(WrongFinalBlockLength)
  ELSE LET p == CbcDecryptRaw(key, iv, c)
       IN IF Pkcs7Ok(p) THEN Ok(TakeFirst(p, Len(p) - p[Len(p)]))
          ELSE Throw(BadDecrypt)

\* the GCM key stream applied to p
GcmStream(key, iv, p) ==
  [n \in 1..Len(p) |-> (p[n] + Cyc(key, n) + Cyc(iv, n) + n) % 256]

GcmUnstream(key, iv, c) ==
  [n \in 1..Len(c) |-> (c[n] + 768 - Cyc(key, n) - Cyc(iv, n) - (n % 256)) % 256]

\* cipher.getAuthTag(): sixteen bytes that depend on the key, the IV and
\* every byte of the ciphertext
GcmTag(key, iv, c) ==
  [j \in 1..TagLength |->
     ((3 * Cyc(key, j)) + Cyc(iv, j) + SumBytes(c, 1) + Len(c) + (5 * j))
       % 256]

\* cipher.update(p) ++ cipher.final() ++ cipher.getAuthTag()
GcmEncrypt(key, iv, p) ==
  LET c == GcmStream(key, iv, p) IN c \o GcmTag(key, iv, c)

\* decipher.setAuthTag(tag): the tag lengths GCM accepts
AuthTagLengthOk(tag) == Len(tag) \in {4, 8, 12, 13, 14, 15, 16}

InvalidAuthTag ==
  Err("TypeError", 0, "Invalid authentication tag length", "",
      "ERR_CRYPTO_INVALID_AUTH_TAG")

\* decipher.update(c) ++ decipher.final() of a GCM decipher whose tag was
\* set: final() throws unless the tag is the one of the ciphertext
GcmDecrypt(key, iv, c, tag) ==
  IF tag = TakeFirst(GcmTag(key, iv, c), Len(tag))
  THEN Ok(GcmUnstream(key, iv, c))
  ELSE Throw(Err("Error", 0, AuthFailedMessage, "", ""))

(***************************************************************************)
(* Form logic: src/src/flow.js.  Date options and time-slot lists are      *)
(* kept as named tokens; the text of the summary is kept as the data it    *)
(* is built from.                                                          *)
(***************************************************************************)
\* the fields of data the flow reads; "" stands for an absent or empty one
FormData(date, altDate, error, name, email, time) ==
  [date |-> date, Choose_your_date_d483b0 |-> altDate, error |-> error,
   name |-> name, email |-> email, time |-> time]

EmptyData == FormData("", "", "", "", "", "")

FilledData == FormData("2025-11-17", "", "", "Ann", "ann@example.com", "10:30")

\* a field sent as the JSON object {"toString":null,"valueOf":null}: it is
\* truthy, and converting it to a string throws a TypeError
NoToString == "{toString:null,valueOf:null}"

\* a template literal over the values: a TypeError when one of them cannot
\* be converted to a string
TemplateThrows(values) == NoToString \in values

\* a decrypted request body
FlowBody(action, screen, data, flow_token) ==
  [action |-> action, screen |-> screen, data |-> data,
   flow_token |-> flow_token]

\* the JSON value null as a decrypted body
NullBody == [null |-> TRUE]

\* a || b on strings
OrElse(a, b) == IF a # "" THEN a ELSE b

\* const normalizedData = {...data, date: data?.date || data?.Choose_...}
NormalizedData(data) ==
  [data EXCEPT !.date = OrElse(data.date, data.Choose_your_date_d483b0)]

\* getAvailableTimeSlotsForDate: the static list unless the Cal.com API
\* answered with slots
GetAvailableTimeSlotsForDate(api) ==
  IF api = "slots" THEN "CAL_SLOTS" ELSE "STATIC_TIMES"

\* a faulty variant: every answer of the API is taken for a booking
CreateBookingAnyAnswer(nd, api) ==
  IF api = "no_key" THEN "null"
  ELSE IF nd.name = "" \/ nd.email = "" \/ nd.date = "" \/ nd.time = ""
       THEN "null"
  ELSE IF TemplateThrows({nd.date, nd.time}) THEN "null"
  ELSE IF api = "error" THEN "null"
  ELSE "success"

\* createBooking: null without API key, with a field missing, or when the
\* request fails; otherwise the body of the API's answer
CreateBooking(nd, api) ==
  IF api = "no_key" THEN "null"
  ELSE IF nd.name = "" \/ nd.email = "" \/ nd.date = "" \/ nd.time = ""
       THEN "null"
  ELSE IF TemplateThrows({nd.date, nd.time}) THEN "null"
  ELSE IF api = "error" THEN "null"
  ELSE api

\* what the external API may do for a request body
ApiOutcomes(body) ==
  IF "action" \notin DOMAIN body \/ body.action # "data_exchange"
  THEN {"none"}
  ELSE IF body.screen = "APPOINTMENT" THEN {"slots", "error"}
  ELSE IF body.screen = "SUMMARY"
       THEN {"no_key", "error", "success", "success_no_data", "failed"}
  ELSE {"none"}

\* getNextScreen(decryptedBody), api being what the external API does
GetNextScreen(body, api) ==
  IF "action" \notin DOMAIN body
  THEN Throw(Err("TypeError", 0, "Cannot destructure property of null",
                 "", ""))
  ELSE
  LET nd == NormalizedData(body.data)
  IN IF body.action = "ping" THEN Ok([data |-> [status |-> "active"]])
     ELSE IF nd.error # "" THEN Ok([data |-> [acknowledged |-> TRUE]])
     ELSE IF body.action = "INIT"
     THEN Ok([screen |-> "APPOINTMENT",
              data |-> [name |-> "", email |-> "", date |-> "NEXT_FIVE_DAYS",
                        is_date_enabled |-> TRUE, time |-> "STATIC_TIMES",
                        is_time_enabled |-> FALSE]])
     ELSE IF body.action = "data_exchange"
     THEN IF body.screen = "APPOINTMENT"
          THEN Ok([screen |-> "APPOINTMENT",
                   data |-> [name |-> nd.name, email |-> nd.email,
                             date |-> "NEXT_FIVE_DAYS",
                             is_date_enabled |-> TRUE,
                             time |-> IF nd.date # ""
                                      THEN GetAvailableTimeSlotsForDate(api)
                                      ELSE "EMPTY",
                             is_time_enabled |-> nd.date # ""]])
          ELSE IF body.screen = "DETAILS"
          THEN IF TemplateThrows({nd.name, nd.email, nd.date, nd.time})
               THEN Throw(Err("TypeError", 0,
                              "Cannot convert object to primitive value",
                              "", ""))
               ELSE Ok([screen |-> "SUMMARY", data |-> nd])
          ELSE IF body.screen = "SUMMARY"
          THEN LET bookingResponse == CreateBooking(nd, api)
                   booked == bookingResponse = "success"
               IN Ok([screen |-> "SUCCESS",
                      data |-> [flow_token |-> body.flow_token,
                                booked |-> booked,
                                booking_id |->
                                  IF booked THEN "booking-1" ELSE "null",
                                meeting_url |->
                                  IF booked THEN "https://meet" ELSE "null",
                                name |-> nd.name, email |-> nd.email,
                                date |-> nd.date, time |-> nd.time]])
          ELSE Ok([data |-> [acknowledged |-> TRUE]])
     ELSE Throw(Err("Error", 0, "Unhandled endpoint request.", "", ""))

\* the decrypted bodies clients send in the model
FlowBodies ==
  {FlowBody("ping", "", EmptyData, "tokA"),
   FlowBody("INIT", "", EmptyData, "tokA"),
   FlowBody("BACK", "APPOINTMENT", EmptyData, "tokA"),
   FlowBody("data_exchange", "APPOINTMENT", EmptyData, "tokA"),
   FlowBody("data_exchange", "APPOINTMENT",
            FormData("", "2025-11-17", "", "Ann", "", ""), "tokA"),
   FlowBody("data_exchange", "DETAILS", FilledData, "tokA"),
   FlowBody("data_exchange", "SUMMARY", FilledData, "tokA"),
   FlowBody("data_exchange", "SUMMARY", FilledData, "tokB"),
   FlowBody("data_exchange", "SUMMARY",
            FormData("2025-11-17", "", "", "Ann", "", "10:30"), "tokA"),
   FlowBody("data_exchange", "TERMS", EmptyData, "tokA"),
   FlowBody("data_exchange", "DETAILS",
            FormData("2025-11-17", "", "", NoToString, "ann@example.com",
                     "10:30"), "tokA"),
   FlowBody("data_exchange", "SUMMARY",
            FormData(NoToString, "", "", "Ann", "ann@example.com", "10:30"),
            "tokA"),
   FlowBody("data_exchange", "SUMMARY",
            FormData("2025-11-17", "", "invalid-date", "Ann",
                     "ann@example.com", "10:30"), "tokB"),
   FlowBody("data_exchange", "DETAILS",
            FormData("", "", "invalid-date", "", "", ""), "tokA"),
   NullBody}

\* every value getNextScreen returns for them
ScreenResponses ==
  LET results == UNION {{GetNextScreen(b, a) : a \in ApiOutcomes(b)} :
                          b \in FlowBodies}
  IN {r.value : r \in {x \in results : x.ok}}

(***************************************************************************)
(* The objects of flow.js.  An object is a record on the heap under an id  *)
(* <<c, name>>: c = 0 for the literals of the module, c > 0 for what the   *)
(* c-th call of getNextScreen creates.  A field that holds an object or an *)
(* array holds a reference to it; an array is kept as the token of its     *)
(* items.                                                                  *)
(***************************************************************************)
Ref(id) == [ref |-> id]

Array(items) == [items |-> items]

\* const SCREEN_RESPONSES = {...}: the screens the form logic reads
SCREEN_RESPONSES ==
  (<<0, "APPOINTMENT">> :>
     [screen |-> "APPOINTMENT", data |-> Ref(<<0, "APPOINTMENT.data">>)])
  @@ (<<0, "APPOINTMENT.data">> :>
     [name |-> "", email |-> "",
      date |-> Ref(<<0, "APPOINTMENT.data.date">>), is_date_enabled |-> TRUE,
      time |-> Ref(<<0, "APPOINTMENT.data.time">>),
      is_time_enabled |-> FALSE])
  @@ (<<0, "APPOINTMENT.data.date">> :> Array("EMPTY"))
  @@ (<<0, "APPOINTMENT.data.time">> :> Array("STATIC_TIMES"))
  @@ (<<0, "SUMMARY">> :>
     [screen |-> "SUMMARY", data |-> Ref(<<0, "SUMMARY.data">>)])
  @@ (<<0, "SUMMARY.data">> :>
     FormData("2024-01-01", "", "", "John Doe", "john@example.com", "11:30"))
  @@ (<<0, "SUCCESS">> :>
     [screen |-> "SUCCESS", data |-> Ref(<<0, "SUCCESS.data">>)])
  @@ (<<0, "SUCCESS.data">> :> [flow_token |-> "REPLACE_FLOW_TOKEN"])

\* a faulty variant: the fields are assigned to the source object, which
\* is the object the expression yields
SpreadInPlace(h, id, source, fields) ==
  [h EXCEPT ![source] = fields @@ @] @@ (id :> (fields @@ h[source]))

\* {...source, fields}: a new object under id with the fields of source and,
\* over them, the fields given
SpreadLiteral(h, id, source, fields) == h @@ (id :> (fields @@ h[source]))

\* {fields}: a new object under id
ObjectLiteral(h, id, fields) == h @@ (id :> fields)

(***************************************************************************)
(* JSON text.  The documents of the model are numbered, and the text of    *)
(* document n is {"d":n} with n written as two digits; null is null.       *)
(***************************************************************************)
RECURSIVE SetToSeq(_)
SetToSeq(S) ==
  IF S = {} THEN <<>>
  ELSE LET x == CHOOSE y \in S : TRUE IN <<x>> \o SetToSeq(S \ {x})

JsonDocs == SetToSeq((FlowBodies \ {NullBody}) \cup ScreenResponses)

JsonNullText == <<110, 117, 108, 108>>

\* JSON.stringify(value), as code points
JsonStringify(v) ==
  IF v = NullBody THEN JsonNullText
  ELSE LET n == CHOOSE i \in 1..Len(JsonDocs) : JsonDocs[i] = v
       IN <<123, 34, 100, 34, 58, 48 + (n \div 10), 48 + (n % 10), 125>>

JsonWhitespace == {9, 10, 13, 32}

RECURSIVE JsonTrim(_)
\* the text without the white space around it
JsonTrim(t) ==
  IF t = <<>> THEN t
  ELSE IF t[1] \in JsonWhitespace THEN JsonTrim(DropFirst(t, 1))
  ELSE IF t[Len(t)] \in JsonWhitespace THEN JsonTrim(TakeFirst(t, Len(t) - 1))
  ELSE t

JsonSyntaxError == Err("SyntaxError", 0, "Unexpected token in JSON", "", "")

\* JSON.parse(text)
JsonParse(text) ==
  LET t == JsonTrim(text)
  IN IF t = JsonNullText THEN Ok(NullBody)
     ELSE IF /\ Len(t) = 8
             /\ SubSeq(t, 1, 5) = <<123, 34, 100, 34, 58>>
             /\ t[8] = 125
             /\ t[6] \in 48..57 /\ t[7] \in 48..57
             /\ (10 * (t[6] - 48)) + (t[7] - 48) \in 1..Len(JsonDocs)
          THEN Ok(JsonDocs[(10 * (t[6] - 48)) + (t[7] - 48)])
          ELSE Throw(JsonSyntaxError)

(***************************************************************************)
(* Key store: loadPrivateKey of both encryption modules.                   *)
(***************************************************************************)
\* the private-key files of the model, by what the code looks for in them
\* the kinds of key file: none, PEM blocks of the kinds named, no PEM at
\* all, and a PKCS#8 PEM block behind lines of other text (as openssl
\* pkcs12 writes it behind "Bag Attributes")
KeyFiles ==
  {"missing", "pkcs8", "pkcs1", "pkcs1_enc", "pkcs8_enc", "not_pem",
   "preamble_pkcs8"}

\* fs.readFileSync(keyPath) succeeds
Readable(f) == f # "missing"

\* rawKey.startsWith("-----BEGIN")
StartsWithBegin(f) == f \in {"pkcs8", "pkcs1", "pkcs1_enc", "pkcs8_enc"}

\* rawKey.includes("Proc-Type: 4,ENCRYPTED")
HasProcType(f) == f = "pkcs1_enc"

\* rawKey.includes("BEGIN ENCRYPTED")
HasBeginEncrypted(f) == f = "pkcs8_enc"

\* the file holds a PEM block; the PEM reader of OpenSSL passes over the
\* lines before the -----BEGIN line
HasPemBlock(f) == StartsWithBegin(f) \/ f = "preamble_pkcs8"

\* crypto.createPrivateKey({key, format: "pem", passphrase}): given
\* whether a passphrase is passed and whether it is the right one
CreatePrivateKey(f, passphrasePassed, passphraseRight) ==
  IF ~HasPemBlock(f)
  THEN Throw(Err("Error", 0, "unsupported", "", "ERR_OSSL_UNSUPPORTED"))
  ELSE IF f \in {"pkcs1_enc", "pkcs8_enc"} /\ ~passphrasePassed
  THEN Throw(Err("TypeError", 0, "Passphrase required for encrypted key",
                 "", "ERR_MISSING_PASSPHRASE"))
  ELSE IF f \in {"pkcs1_enc", "pkcs8_enc"} /\ ~passphraseRight
  THEN Throw(Err("Error", 0, "bad decrypt", "", "ERR_OSSL_BAD_DECRYPT"))
  ELSE Ok(ServerKeyPair)

\* loadPrivateKey() of encryption.js; e is the deployment: e.keyFile, and
\* e.passphrase in {"none", "right", "wrong"}
LoadPrivateKeyGcm(e) ==
  IF ~Readable(e.keyFile)
  THEN Throw(FlowEndpointException(500, "Could not read private key file"))
  ELSE IF (HasProcType(e.keyFile) \/ HasBeginEncrypted(e.keyFile))
          /\ e.passphrase = "none"
  THEN Throw(FlowEndpointException(500,
         "Private key is encrypted but PRIVATE_KEY_PASSPHRASE is not set or empty"))
  ELSE LET k == CreatePrivateKey(e.keyFile, e.passphrase # "none",
                                 e.passphrase = "right")
       IN IF k.ok THEN k
          ELSE IF k.error.code = "ERR_OSSL_BAD_PASSWORD_READ"
          THEN Throw(FlowEndpointException(500,
                 "Incorrect passphrase for encrypted private key"))
          ELSE IF k.error.code = "ERR_OSSL_CRYPTO_INTERRUPTED_OR_CANCELLED"
          THEN Throw(FlowEndpointException(500,
                 "Key decryption was cancelled."))
          ELSE Throw([FlowEndpointException(500, "Failed to load private key: ")
                        EXCEPT !.cause = k.error.message])

\* loadPrivateKey() of part_000
LoadPrivateKeyCbc(e) ==
  IF ~Readable(e.keyFile)
  THEN Throw(Err("Error", 0, "Could not read private key file", "", ""))
  ELSE IF ~StartsWithBegin(e.keyFile)
  THEN Throw(Err("Error", 0, "PRIVATE KEY file is not a valid PEM", "", ""))
  ELSE IF HasProcType(e.keyFile) /\ e.passphrase = "none"
  THEN Throw(Err("Error", 0,
         "Private key is encrypted but PRIVATE_KEY_PASSPHRASE environment variable is not set",
         "", ""))
  ELSE CreatePrivateKey(e.keyFile,
                        HasProcType(e.keyFile) /\ e.passphrase # "none",
                        e.passphrase = "right")

(***************************************************************************)
(* decryptRequest and encryptResponse.  A result carries ops, the calls    *)
(* into the key store and into node:crypto made on the way, in order.      *)
(***************************************************************************)
Returned(v, ops) == [ok |-> TRUE, value |-> v, ops |-> ops]

Thrown(e, ops) == [ok |-> FALSE, error |-> e, ops |-> ops]

DecryptedRequest(decryptedBody, aesKeyBuffer, initialVectorBuffer) ==
  [decryptedBody |-> decryptedBody, aesKeyBuffer |-> aesKeyBuffer,
   initialVectorBuffer |-> initialVectorBuffer]

MalformedMessage == "Malformed request body"

KeyMismatchMessage ==
  "Failed to decrypt the request. Please verify your private key."

DecryptFailedMessage == "Failed to decrypt flow data: "

\* the body of the try block of decryptRequest (encryption.js): update,
\* final and JSON.parse, every exception wrapped alike
GcmDecryptAndParse(aesKey, iv, flow, ops) ==
  LET plain == GcmDecrypt(aesKey, iv,
                          TakeFirst(flow, Len(flow) - TagLength),
                          DropFirst(flow, Len(flow) - TagLength))
      json == JsonParse(Utf8Decode(plain.value))
      ops2 == ops \o <<"decipher.final">>
  IN IF ~plain.ok
     THEN Thrown([FlowEndpointException(500, DecryptFailedMessage)
                    EXCEPT !.cause = plain.error.message], ops2)
     ELSE IF ~json.ok
     THEN Thrown([FlowEndpointException(500, DecryptFailedMessage)
                    EXCEPT !.cause = json.error.message],
                 ops2 \o <<"JSON.parse">>)
     ELSE Returned(DecryptedRequest(json.value, aesKey, iv),
                   ops2 \o <<"JSON.parse">>)

\* decryptRequest(body) of encryption.js: RSA-OAEP with SHA-256, then
\* aes-128-gcm with the tag in the last 16 bytes of the payload
DecryptRequestGcm(body, e) ==
  IF Falsy(body.encrypted_flow_data) \/ Falsy(body.encrypted_aes_key)
     \/ Falsy(body.initial_vector)
  THEN Thrown(FlowEndpointException(400, MalformedMessage), <<>>)
  ELSE
  LET privateKey == LoadPrivateKeyGcm(e)
      rsa == IF body.encrypted_aes_key.t # "string" THEN Throw(InvalidArgType)
             ELSE PrivateDecrypt(privateKey.value, "sha256",
                                 Base64Decode(body.encrypted_aes_key.s))
      flow == Base64Decode(body.encrypted_flow_data.s)
      iv == Base64Decode(body.initial_vector.s)
      made == CreateCipherError("aes-128-gcm", rsa.value, iv)
      ops1 == <<"loadPrivateKey">>
      ops2 == IF body.encrypted_aes_key.t # "string" THEN ops1
              ELSE ops1 \o <<"privateDecrypt">>
      ops3 == ops2 \o <<"createDecipheriv">>
  IN IF ~privateKey.ok THEN Thrown(privateKey.error, ops1)
     ELSE IF ~rsa.ok
     THEN Thrown(FlowEndpointException(421, KeyMismatchMessage), ops2)
     ELSE IF body.encrypted_flow_data.t # "string"
             \/ body.initial_vector.t # "string"
     THEN Thrown(InvalidArgType, ops2)
     ELSE IF ~made.ok THEN Thrown(made.error, ops3)
     ELSE IF ~AuthTagLengthOk(DropFirst(flow, Len(flow) - TagLength))
     THEN Thrown(InvalidAuthTag, ops3 \o <<"setAuthTag">>)
     ELSE GcmDecryptAndParse(rsa.value, iv, flow, ops3 \o <<"setAuthTag">>)

\* getAesCbcAlgorithm(aesKeyBuffer), len being aesKeyBuffer.length
GetAesCbcAlgorithm(len) ==
  IF len = 16 THEN Ok("aes-128-cbc")
  ELSE IF len = 24 THEN Ok("aes-192-cbc")
  ELSE IF len = 32 THEN Ok("aes-256-cbc")
  ELSE Throw(Err("Error", 0, "Unsupported AES key length", "", ""))

\* a faulty variant: the default hash is tried after every failure
RsaDecryptAesKeyAnyError(privateKeyObject, encryptedAesKeyBase64) ==
  LET encryptedBuf == Base64Decode(encryptedAesKeyBase64)
      first == PrivateDecrypt(privateKeyObject, "sha256", encryptedBuf)
      second == PrivateDecrypt(privateKeyObject, "sha1", encryptedBuf)
  IN IF first.ok THEN first @@ [attempts |-> 1, tried |-> <<"sha256">>]
     ELSE second @@ [attempts |-> 2, tried |-> <<"sha256", "sha1">>]

\* rsaDecryptAesKey(privateKeyObject, encryptedAesKeyBase64): SHA-256
\* first, the default hash after an OAEP decoding error.  attempts counts
\* the calls of privateDecrypt, tried names their hashes in order
RsaDecryptAesKey(privateKeyObject, encryptedAesKeyBase64) ==
  LET encryptedBuf == Base64Decode(encryptedAesKeyBase64)
      first == PrivateDecrypt(privateKeyObject, "sha256", encryptedBuf)
      second == PrivateDecrypt(privateKeyObject, "sha1", encryptedBuf)
  IN IF first.ok THEN first @@ [attempts |-> 1, tried |-> <<"sha256">>]
     ELSE IF first.error.code # "ERR_OSSL_RSA_OAEP_DECODING_ERROR"
     THEN first @@ [attempts |-> 1, tried |-> <<"sha256">>]
     ELSE second @@ [attempts |-> 2, tried |-> <<"sha256", "sha1">>]

InvalidIvLengthMessage == "Invalid IV length"

InvalidDataLengthMessage ==
  "Encrypted data has invalid length - not a multiple of block size"

\* a faulty variant: the failure of the manual removal is thrown
ManualPaddingRemovalOwnError(algo, aesKey, iv, data, finalError) ==
  LET raw == CbcDecrypt(aesKey, iv, data, FALSE)
      paddingLength == IF Len(raw.value) = 0 THEN 0
                       ELSE raw.value[Len(raw.value)]
  IN IF ~raw.ok THEN raw
     ELSE IF paddingLength > 0 /\ paddingLength <= 16
     THEN Ok(TakeFirst(raw.value, Len(raw.value) - paddingLength))
     ELSE Throw(Err("Error", 0, "Invalid padding length", "", ""))

\* the manual removal of the padding after decipher.final() failed with
\* finalError: the text, or finalError again
ManualPaddingRemoval(algo, aesKey, iv, data, finalError) ==
  LET raw == CbcDecrypt(aesKey, iv, data, FALSE)
      paddingLength == IF Len(raw.value) = 0 THEN 0
                       ELSE raw.value[Len(raw.value)]
  IN IF ~raw.ok THEN Throw(finalError)
     ELSE IF paddingLength > 0 /\ paddingLength <= 16
     THEN Ok(TakeFirst(raw.value, Len(raw.value) - paddingLength))
     ELSE Throw(finalError)

\* a faulty variant: the buffers of the request go to the cipher unchecked
ValidateBuffersSkipped(ivBuffer, encryptedDataBuffer) == Ok(TRUE)

\* the validation of the decoded IV and payload (part_000, step 4): the IV
\* first, then the payload.  The message of the IV error goes on with the
\* length found
ValidateBuffers(ivBuffer, encryptedDataBuffer) ==
  IF Len(ivBuffer) # 16
  THEN Throw(Err("Error", 0, InvalidIvLengthMessage, "", ""))
  ELSE IF Len(encryptedDataBuffer) % BlockSize # 0
  THEN Throw(Err("Error", 0, InvalidDataLengthMessage, "", ""))
  ELSE Ok(TRUE)

\* steps 3 to 6 of decryptRequest (part_000), the AES key being recovered
CbcDecryptAndParse(aesKey, body, ops) ==
  LET algo == GetAesCbcAlgorithm(Len(aesKey))
      ivBuffer == Base64Decode(body.initial_vector.s)
      encryptedDataBuffer == Base64Decode(body.encrypted_flow_data.s)
      valid == ValidateBuffers(ivBuffer, encryptedDataBuffer)
      made == CreateCipherError(algo.value, aesKey, ivBuffer)
      auto == CbcDecrypt(aesKey, ivBuffer, encryptedDataBuffer, TRUE)
      manual == ManualPaddingRemoval(algo.value, aesKey, ivBuffer,
                                     encryptedDataBuffer, auto.error)
      decrypted == IF auto.ok THEN auto ELSE manual
      json == JsonParse(Utf8Decode(decrypted.value))
      ops4 == ops \o <<"createDecipheriv">>
      ops5 == IF auto.ok THEN ops4 \o <<"decipher.final">>
              ELSE ops4 \o <<"decipher.final", "createDecipheriv",
                             "decipher2.final">>
  IN IF ~algo.ok THEN Thrown(algo.error, ops)
     ELSE IF ~valid.ok THEN Thrown(valid.error, ops)
     ELSE IF ~made.ok THEN Thrown(made.error, ops4)
     ELSE IF ~decrypted.ok THEN Thrown(decrypted.error, ops5)
     ELSE IF ~json.ok THEN Thrown(json.error, ops5 \o <<"JSON.parse">>)
     ELSE Returned(DecryptedRequest(json.value, aesKey, ivBuffer),
                   ops5 \o <<"JSON.parse">>)

\* decryptRequest(body) of part_000: the fields are logged with
\* ?.substring before they are checked; every later exception is caught,
\* logged and thrown again as it is
DecryptRequestCbc(body, e) ==
  IF OptionalSubstringThrows(body.encrypted_flow_data)
     \/ OptionalSubstringThrows(body.encrypted_aes_key)
     \/ OptionalSubstringThrows(body.initial_vector)
  THEN Thrown(Err("TypeError", 0, "substring is not a function", "", ""),
              <<>>)
  ELSE IF Falsy(body.encrypted_flow_data) \/ Falsy(body.encrypted_aes_key)
          \/ Falsy(body.initial_vector)
  THEN Thrown(Err("FlowEndpointException", 400, "", "", ""), <<>>)
  ELSE
  LET privateKeyObject == LoadPrivateKeyCbc(e)
      rsa == RsaDecryptAesKey(privateKeyObject.value,
                              body.encrypted_aes_key.s)
      ops1 == <<"loadPrivateKey">>
      ops2 == ops1 \o [i \in 1..rsa.attempts |-> "privateDecrypt"]
  IN IF ~privateKeyObject.ok THEN Thrown(privateKeyObject.error, ops1)
     ELSE IF ~rsa.ok THEN Thrown(rsa.error, ops2)
     ELSE CbcDecryptAndParse(rsa.value, body, ops2)

CipherFailure == Err("Error", 0, "cipher failure", "", "ERR_OSSL_EVP")

\* a faulty variant: the byte of the IV is used as it came
FlipByteNot(b) == b

\* the bitwise NOT of a byte, stored in a Buffer: ~b & 255
FlipByte(b) == ((-1 - b) + 256) % 256

\* lines 373-377 and 383: Buffer.from(flipped_iv)
FlippedIv(initialVectorBuffer) ==
  [i \in 1..Len(initialVectorBuffer) |-> FlipByte(initialVectorBuffer[i])]

\* encryptResponse(response, aesKeyBuffer, initialVectorBuffer) of
\* encryption.js: aes-128-gcm under the flipped IV, tag appended, base64.
\* fault: the cipher itself reports an error
EncryptResponseGcm(response, aesKeyBuffer, initialVectorBuffer, fault) ==
  LET flipped_iv == FlippedIv(initialVectorBuffer)
      made == CreateCipherError("aes-128-gcm", aesKeyBuffer, flipped_iv)
  IN IF ~made.ok THEN Throw(made.error)
     ELSE IF fault THEN Throw(CipherFailure)
     ELSE Ok(Str(Base64Encode(
               GcmEncrypt(aesKeyBuffer, flipped_iv,
                          Utf8Encode(JsonStringify(response))))))

\* encryptResponse(responseBody, aesKeyBuffer, initialVectorBuffer) of
\* part_000: AES-CBC chosen by the key length, the IV as it is; exceptions
\* are logged and thrown again
EncryptResponseCbc(responseBody, aesKeyBuffer, initialVectorBuffer, fault) ==
  LET algo == GetAesCbcAlgorithm(Len(aesKeyBuffer))
      made == CreateCipherError(algo.value, aesKeyBuffer, initialVectorBuffer)
  IN IF ~algo.ok THEN Throw(algo.error)
     ELSE IF ~made.ok THEN Throw(made.error)
     ELSE IF fault THEN Throw(CipherFailure)
     ELSE Ok([encrypted_flow_data |->
                Str(Base64Encode(
                  CbcEncrypt(aesKeyBuffer, initialVectorBuffer,
                             Utf8Encode(JsonStringify(responseBody)))))])

(***************************************************************************)
(* State.                                                                  *)
(***************************************************************************)
VARIABLES
  env,   \* the deployment: encryption module, APP_SECRET, key file, express
  req,   \* req[r]: the r-th POST request (header, raw bytes, parsed body)
  pc,    \* pc[r]: where the handler of request r stands
  log,   \* log[r]: the stages the handler of request r has called, in order
  dec,   \* dec[r]: what decryptRequest returned or threw for request r
  scr,   \* scr[r]: what getNextScreen returned or threw for request r
  res,   \* res[r]: the response to request r
  sig,   \* one application of isRequestSignatureValid (SigSpec)
  rt,    \* one encryptResponse / decrypt round trip (RoundTripSpec)
  heap,  \* the objects of flow.js: SCREEN_RESPONSES and what calls create
  calls  \* calls[c]: the c-th call of getNextScreen (FlowSpec)

vars == <<env, req, pc, log, dec, scr, res, sig, rt, heap, calls>>

handlerVars == <<env, req, pc, log, dec, scr, res>>

\* the handler variables when no request is in play
HandlerIdle ==
  /\ env = [variant |-> "GCM", APP_SECRET |-> NoSecret, keyFile |-> "pkcs8",
            passphrase |-> "none", express |-> 4]
  /\ req = <<>> /\ pc = <<>> /\ log = <<>> /\ dec = <<>> /\ scr = <<>>
  /\ res = <<>>

SigIdle == [case |-> "none", base |-> <<>>, buf |-> <<>>,
            header |-> NoHeader, secret |-> NoSecret, outcome |-> "idle",
            next |-> "none", status |-> 0]

RtIdle == [stage |-> "idle"]

\* flow.js as loaded, no call of getNextScreen made
FlowIdle == heap = SCREEN_RESPONSES /\ calls = <<>>

(***************************************************************************)
(* The requests of the model.                                              *)
(***************************************************************************)
Key16 == [i \in 1..16 |-> i]

Key24 == [i \in 1..24 |-> 2 * i]

Key32 == [i \in 1..32 |-> 3 * i]

\* a key of a length no AES cipher takes
Key20 == [i \in 1..20 |-> 5 * i]

Iv16 == [i \in 1..16 |-> 200 + i]

Iv12 == [i \in 1..12 |-> 100 + i]

\* the bytes of a request: the JSON text of a body, with n spaces after it
PlainText(doc, n) == Utf8Encode(JsonStringify(doc)) \o [i \in 1..n |-> 32]

NotJsonText == <<110, 111, 112, 101>>

\* what a client puts in encrypted_flow_data for a cipher mode
ClientEncrypt(mode, key, iv, plain) ==
  IF mode = "GCM" THEN GcmEncrypt(key, iv, plain)
  ELSE CbcEncrypt(key, iv, plain)

\* the last byte of a buffer changed
FlipLast(b) == [b EXCEPT ![Len(b)] = (b[Len(b)] + 1) % 256]

\* the envelope a client sends
Envelope(flow, pair, oaepHash, key, iv) ==
  [encrypted_flow_data |-> Str(Base64Encode(flow)),
   encrypted_aes_key |-> Str(Base64Encode(RsaOaepEncrypt(pair, oaepHash, key))),
   initial_vector |-> Str(Base64Encode(iv))]

PingBody == FlowBody("ping", "", EmptyData, "tokA")

\* the well-formed envelope of a ping under a 16-byte key
PingEnvelope(mode) ==
  Envelope(ClientEncrypt(mode, Key16, Iv16, PlainText(PingBody, 0)),
           ServerKeyPair, "sha256", Key16, Iv16)

\* well-formed envelopes: every body of the model under a 16-byte key, and
\* a ping under the other key lengths, hashes and paddings
GoodEnvelopes(mode) ==
  {Envelope(ClientEncrypt(mode, Key16, Iv16, PlainText(b, 0)),
            ServerKeyPair, "sha256", Key16, Iv16) : b \in FlowBodies}
  \cup {Envelope(ClientEncrypt(mode, k, Iv16, PlainText(PingBody, 0)),
                 ServerKeyPair, "sha256", k, Iv16) : k \in {Key24, Key32}}
  \cup {Envelope(ClientEncrypt(mode, Key16, Iv16, PlainText(PingBody, n)),
                 ServerKeyPair, h, Key16, Iv16) :
          n \in {0, 8}, h \in {"sha1", "sha256"}}

\* envelopes with one field absent, empty or not a string, alone or next
\* to a second defect
FieldDefects(mode) ==
  LET good == PingEnvelope(mode)
      bad == {Undefined, Str(<<>>), NonString}
  IN {[good EXCEPT !.encrypted_flow_data = v] : v \in bad}
     \cup {[good EXCEPT !.encrypted_aes_key = v] : v \in bad}
     \cup {[good EXCEPT !.initial_vector = v] : v \in bad}
     \cup {[good EXCEPT !.encrypted_flow_data = v, !.encrypted_aes_key = w] :
             v \in {Undefined, Str(<<>>)}, w \in {NonString, Undefined}}
     \cup {[good EXCEPT !.initial_vector = Undefined,
                        !.encrypted_aes_key = NonString]}

\* envelopes whose fields are all there, with a defect in the key, the IV
\* or the payload
CryptoDefects(mode) ==
  LET flow == ClientEncrypt(mode, Key16, Iv16, PlainText(PingBody, 0))
      env0(f, pair, key, iv) == Envelope(f, pair, "sha256", key, iv)
  IN {env0(flow, OtherKeyPair, Key16, Iv16),
      env0(ClientEncrypt(mode, Key20, Iv16, PlainText(PingBody, 0)),
           ServerKeyPair, Key20, Iv16),
      env0(IF mode = "GCM" THEN GcmEncrypt(Key16, Iv12, PlainText(PingBody, 0))
           ELSE flow, ServerKeyPair, Key16, Iv12),
      env0(FlipLast(flow), ServerKeyPair, Key16, Iv16),
      env0(TakeFirst(flow, Len(flow) - 1), ServerKeyPair, Key16, Iv16),
      env0(TakeFirst(flow, Len(flow) - 1), ServerKeyPair, Key16, Iv12),
      env0(TakeFirst(flow, 5), ServerKeyPair, Key16, Iv16),
      env0(ClientEncrypt(mode, Key16, Iv16, NotJsonText),
           ServerKeyPair, Key16, Iv16),
      env0(FlipLast(ClientEncrypt(mode, Key16, Iv16, NotJsonText)),
           ServerKeyPair, Key16, Iv16)}
     \cup {[PingEnvelope(mode) EXCEPT !.initial_vector = Str(<<"!", "!">>)],
           [PingEnvelope(mode) EXCEPT !.encrypted_aes_key =
              Str(Base64Encode([i \in 1..(RsaModulusLen + 1) |-> 7]))]}

\* one block of plaintext: the text of a ping, seven bytes fill, and last
PaddedBlock(fill, last) ==
  PlainText(PingBody, 0) \o [i \in 1..7 |-> fill] \o <<last>>

\* CBC envelopes whose last block is no PKCS#7 padding: the last byte 0,
\* above 16, or a length behind bytes that are no padding; and a payload
\* of no bytes
PaddingDefects ==
  {Envelope(CbcEncryptFrom(Key16, Iv16, PaddedBlock(c[1], c[2]), <<>>),
            ServerKeyPair, "sha256", Key16, Iv16) :
     c \in {<<32, 0>>, <<32, 17>>, <<32, 200>>, <<0, 8>>}}
  \cup {[PingEnvelope("CBC") EXCEPT
           !.encrypted_flow_data = Str(<<"!", "!">>)]}

Envelopes ==
  UNION {GoodEnvelopes(m) \cup FieldDefects(m) \cup CryptoDefects(m) :
           m \in {"GCM", "CBC"}}
  \cup PaddingDefects

\* the raw bytes of the request body, as far as the signature goes
RawBytes == <<123, 125>>

\* the x-hub-signature-256 headers of the model
Headers ==
  {NoHeader, SignatureFor(SecretA, RawBytes), SignatureFor(SecretB, RawBytes)}

Request(header, body) == [header |-> header, raw |-> RawBytes, body |-> body]

\* key file and passphrase of the deployments of the model
KeyConfigs ==
  {<<"pkcs8", "none">>, <<"missing", "none">>, <<"not_pem", "none">>,
   <<"pkcs1_enc", "none">>, <<"pkcs1_enc", "right">>,
   <<"pkcs8_enc", "none">>, <<"preamble_pkcs8", "none">>}

Deployments ==
  {[variant |-> v, APP_SECRET |-> s, keyFile |-> k[1], passphrase |-> k[2],
    express |-> x] :
     v \in {"GCM", "CBC"}, s \in {NoSecret, SecretA}, k \in KeyConfigs,
     x \in {4, 5}}

(***************************************************************************)
(* The POST handler: src/src/server.js, app.post("/").                     *)
(***************************************************************************)
NotCalled == [called |-> FALSE]

Called(result) == [called |-> TRUE, result |-> result]

NoResponse ==
  [sent |-> FALSE, status |-> 0, body |-> "none", by |-> "none",
   payload |-> Undefined]

\* res.status(code).send(): a response without body
EmptyResponse(code) ==
  [sent |-> TRUE, status |-> code, body |-> "empty", by |-> "handler",
   payload |-> Undefined]

Stage(call, ok) == [call |-> call, ok |-> ok]

Reqs == DOMAIN pc

\* decryptRequest of the deployed encryption module
DecryptRequest(body, e) ==
  IF e.variant = "GCM" THEN DecryptRequestGcm(body, e)
  ELSE DecryptRequestCbc(body, e)

\* encryptResponse of the deployed encryption module
EncryptResponse(e, response, aesKeyBuffer, initialVectorBuffer, fault) ==
  IF e.variant = "GCM"
  THEN EncryptResponseGcm(response, aesKeyBuffer, initialVectorBuffer, fault)
  ELSE EncryptResponseCbc(response, aesKeyBuffer, initialVectorBuffer, fault)

\* lines 40-86: the diagnostic logging.  flowData.substring(...) throws
\* when encrypted_flow_data is truthy and no string; the exception leaves
\* the async handler
LogRequest(r) ==
  /\ pc[r] = "received"
  /\ pc' = [pc EXCEPT ![r] =
              IF req[r].body.encrypted_flow_data.t = "number"
              THEN "rejected" ELSE "authenticate"]
  /\ UNCHANGED <<env, req, log, dec, scr, res, sig, rt, heap, calls>>

\* a faulty variant: the handler going on after a failed signature check
AfterSignatureNoReturn(valid) == "decrypt"

\* where the handler goes after isRequestSignatureValid(req)
AfterSignature(valid) == IF valid THEN "decrypt" ELSE "done"

\* line 94: res.status(432).send()
SignatureInvalidResponse == EmptyResponse(432)

\* lines 88-95: the signature check, 432 without body when it fails
CheckSignature(r) ==
  /\ pc[r] = "authenticate"
  /\ LET valid == IsRequestSignatureValid(env.APP_SECRET, req[r].header,
                                          RawBodyOf(req[r].raw)) = "true"
     IN /\ log' = [log EXCEPT ![r] =
                     Append(@, Stage("isRequestSignatureValid", valid))]
        /\ pc' = [pc EXCEPT ![r] = AfterSignature(valid)]
        /\ res' = [res EXCEPT ![r] =
                     IF valid THEN @ ELSE SignatureInvalidResponse]
  /\ UNCHANGED <<env, req, dec, scr, sig, rt, heap, calls>>

\* the status the handler answers an exception of decryptRequest with
DecryptErrorStatus(err) ==
  IF err.class = "FlowEndpointException" THEN err.statusCode ELSE 500

\* lines 97-108: decryptRequest, its exceptions answered without body
Decrypt(r) ==
  /\ pc[r] = "decrypt"
  /\ LET d == DecryptRequest(req[r].body, env)
     IN /\ dec' = [dec EXCEPT ![r] = Called(d)]
        /\ log' = [log EXCEPT ![r] = Append(@, Stage("decryptRequest", d.ok))]
        /\ pc' = [pc EXCEPT ![r] = IF d.ok THEN "form" ELSE "done"]
        /\ res' = [res EXCEPT ![r] =
                     IF d.ok THEN @
                     ELSE EmptyResponse(DecryptErrorStatus(d.error))]
  /\ UNCHANGED <<env, req, scr, sig, rt, heap, calls>>

\* line 118: getNextScreen is called and the handler awaits its promise
CallGetNextScreen(r) ==
  /\ pc[r] = "form"
  /\ \E api \in ApiOutcomes(dec[r].result.value.decryptedBody) :
       LET s == GetNextScreen(dec[r].result.value.decryptedBody, api)
       IN /\ scr' = [scr EXCEPT ![r] = Called(s) @@ [api |-> api]]
          /\ log' = [log EXCEPT ![r] = Append(@, Stage("getNextScreen", s.ok))]
  /\ pc' = [pc EXCEPT ![r] = "await"]
  /\ UNCHANGED <<env, req, dec, res, sig, rt, heap, calls>>

\* lines 119-122: the promise of getNextScreen was rejected
FormLogicFailed(r) ==
  /\ pc[r] = "await"
  /\ ~scr[r].result.ok
  /\ pc' = [pc EXCEPT ![r] = "done"]
  /\ res' = [res EXCEPT ![r] = EmptyResponse(500)]
  /\ UNCHANGED <<env, req, log, dec, scr, sig, rt, heap, calls>>

\* a faulty variant: the key material kept in one place for all requests
KeyMaterialShared(r) ==
  (dec[CHOOSE q \in Reqs : dec[q].called /\ dec[q].result.ok]).result.value

\* line 110: aesKeyBuffer and initialVectorBuffer are constants of the
\* invocation of the handler, taken from its own decryptedRequest
KeyMaterial(r) == dec[r].result.value

\* lines 124-132: the promise resolved; encryptResponse, outside any try
\* block, and res.send of what it returned
EncryptAndSend(r) ==
  /\ pc[r] = "await"
  /\ scr[r].result.ok
  /\ \E fault \in BOOLEAN :
       LET d == KeyMaterial(r)
           enc == EncryptResponse(env, scr[r].result.value, d.aesKeyBuffer,
                                  d.initialVectorBuffer, fault)
       IN /\ log' = [log EXCEPT ![r] =
                       Append(@, Stage("encryptResponse", enc.ok))]
          /\ pc' = [pc EXCEPT ![r] = IF enc.ok THEN "done" ELSE "rejected"]
          /\ res' = [res EXCEPT ![r] =
                       IF enc.ok
                       THEN [sent |-> TRUE, status |-> 200,
                             body |-> "envelope", by |-> "handler",
                             payload |-> enc.value]
                       ELSE @]
  /\ UNCHANGED <<env, req, dec, scr, sig, rt, heap, calls>>

\* an exception left the async handler.  Express 4 does not watch the
\* promise a handler returns: nothing is ever sent.  Express 5 passes the
\* rejection to its error handler, which answers 500 with an error page
Rejected(r) ==
  /\ pc[r] = "rejected"
  /\ pc' = [pc EXCEPT ![r] = "done"]
  /\ res' = [res EXCEPT ![r] =
               IF env.express = 5
               THEN [sent |-> TRUE, status |-> 500, body |-> "error_page",
                     by |-> "express", payload |-> Undefined]
               ELSE @]
  /\ UNCHANGED <<env, req, log, dec, scr, sig, rt, heap, calls>>

\* one request arrives at a deployment
Init ==
  /\ env \in Deployments
  /\ req \in [{1} -> {Request(h, b) : h \in Headers, b \in Envelopes}]
  /\ pc = [r \in {1} |-> "received"]
  /\ log = [r \in {1} |-> <<>>]
  /\ dec = [r \in {1} |-> NotCalled]
  /\ scr = [r \in {1} |-> NotCalled]
  /\ res = [r \in {1} |-> NoResponse]
  /\ sig = SigIdle
  /\ rt = RtIdle
  /\ FlowIdle

Next ==
  \E r \in Reqs :
    \/ LogRequest(r)
    \/ CheckSignature(r)
    \/ Decrypt(r)
    \/ CallGetNextScreen(r)
    \/ FormLogicFailed(r)
    \/ EncryptAndSend(r)
    \/ Rejected(r)

Spec == Init /\ [][Next]_vars

(***************************************************************************)
(* Properties of the handler (Spec).                                       *)
(***************************************************************************)
StageOrder ==
  <<"isRequestSignatureValid", "decryptRequest", "getNextScreen",
    "encryptResponse">>

\* the handler of request r has called the stage
Invoked(r, call) == \E i \in 1..Len(log[r]) : log[r][i].call = call

\* the three fields of the envelope are strings and none is empty
Complete(body) ==
  \A f \in {"encrypted_flow_data", "encrypted_aes_key", "initial_vector"} :
    body[f].t = "string" /\ body[f].s # <<>>

\* a field of the envelope is absent or the empty string
FieldMissing(body) ==
  \E f \in {"encrypted_flow_data", "encrypted_aes_key", "initial_vector"} :
    body[f] \in {Undefined, Str(<<>>)}

\* loadPrivateKey of the deployed encryption module
LoadPrivateKey(e) ==
  IF e.variant = "GCM" THEN LoadPrivateKeyGcm(e) ELSE LoadPrivateKeyCbc(e)

\* the RSA step of the deployed decryptRequest on a complete envelope
RecoverKey(body, e) ==
  IF e.variant = "GCM"
  THEN PrivateDecrypt(LoadPrivateKey(e).value, "sha256",
                      Base64Decode(body.encrypted_aes_key.s))
  ELSE RsaDecryptAesKey(LoadPrivateKey(e).value, body.encrypted_aes_key.s)

\* decryptRequest got as far as the RSA step, and the step succeeded
KeyRecovered(body, e) ==
  Complete(body) /\ LoadPrivateKey(e).ok /\ RecoverKey(body, e).ok

\* decryptRequest got as far as the RSA step, and the step failed
RsaFailed(body, e) ==
  Complete(body) /\ LoadPrivateKey(e).ok /\ ~RecoverKey(body, e).ok

\* C1: the stages of a request are called in the order signature check,
\* decryptRequest, getNextScreen, encryptResponse, each only after the one
\* before it succeeded; a failed signature check is answered 432 without
\* body and is the last stage called, and so is a failed decryptRequest
C1_StagesInOrder ==
  \A r \in Reqs :
    /\ Len(log[r]) <= Len(StageOrder)
    /\ \A i \in 1..Len(log[r]) :
         /\ log[r][i].call = StageOrder[i]
         /\ i > 1 => log[r][i - 1].ok
    /\ (Len(log[r]) >= 1 /\ ~log[r][1].ok)
         => /\ res[r] = EmptyResponse(432)
            /\ ~Invoked(r, "decryptRequest")
            /\ ~Invoked(r, "getNextScreen")
            /\ ~Invoked(r, "encryptResponse")
    /\ (Len(log[r]) >= 2 /\ ~log[r][2].ok)
         => /\ ~Invoked(r, "getNextScreen")
            /\ ~Invoked(r, "encryptResponse")

\* C1, the case: a request with a wrong signature was answered
C1_Witness ==
  \E r \in Reqs :
    /\ pc[r] = "done"
    /\ log[r] = <<Stage("isRequestSignatureValid", FALSE)>>
    /\ res[r].status = 432

\* C2: a body with an absent or empty field makes decryptRequest fail with
\* the malformed-request error, status 400, before the key is loaded and
\* before any RSA or AES operation
C2_MissingFieldIs400 ==
  \A r \in Reqs :
    (dec[r].called /\ FieldMissing(req[r].body))
      => /\ ~dec[r].result.ok
         /\ dec[r].result.error.class = "FlowEndpointException"
         /\ dec[r].result.error.statusCode = 400
         /\ dec[r].result.ops = <<>>

\* C3: a complete envelope whose RSA-OAEP decryption fails (after the
\* fallback, where there is one) makes decryptRequest fail with the
\* key-mismatch error, and the handler answers 421, in either module
C3_RsaFailureIs421 ==
  \A r \in Reqs :
    (dec[r].called /\ RsaFailed(req[r].body, env))
      => /\ ~dec[r].result.ok
         /\ dec[r].result.error.class = "FlowEndpointException"
         /\ dec[r].result.error.statusCode = 421
         /\ res[r] = EmptyResponse(421)

\* what a caller of decryptRequest can tell the kind of an error by: its
\* class, its status code and the fixed part of its message
ErrorKind(err) == <<err.class, err.statusCode, err.message>>

\* an envelope whose tag verifies and whose plaintext is no JSON
NotJsonEnvelope ==
  Envelope(GcmEncrypt(Key16, Iv16, NotJsonText), ServerKeyPair, "sha256",
           Key16, Iv16)

\* the GCM cipher of the request was set up and its tag does not verify
TagRejected(body, e) ==
  /\ KeyRecovered(body, e)
  /\ LET key == RecoverKey(body, e).value
         iv == Base64Decode(body.initial_vector.s)
         flow == Base64Decode(body.encrypted_flow_data.s)
         tag == DropFirst(flow, Len(flow) - TagLength)
     IN /\ CreateCipherError("aes-128-gcm", key, iv).ok
        /\ AuthTagLengthOk(tag)
        /\ ~GcmDecrypt(key, iv, TakeFirst(flow, Len(flow) - TagLength),
                       tag).ok

\* C5: in the GCM module an envelope whose tag does not verify fails with
\* an error of another kind than an envelope whose tag verifies and whose
\* plaintext is not JSON
C5_TagFailureDistinct ==
  \A r \in Reqs :
    (env.variant = "GCM" /\ dec[r].called /\ TagRejected(req[r].body, env))
      => /\ ~dec[r].result.ok
         /\ ErrorKind(dec[r].result.error)
              # ErrorKind(DecryptRequestGcm(NotJsonEnvelope, env).error)

\* C7: a response that was sent has no body, or is the envelope of
\* encryptResponse after all four stages succeeded
C7_NoPartialResponse ==
  \A r \in Reqs :
    res[r].sent
      => \/ res[r].body = "empty"
         \/ /\ res[r].body = "envelope"
            /\ Len(log[r]) = 4
            /\ \A i \in 1..4 : log[r][i].ok

\* C8: a request whose encryptResponse failed after decryptRequest and
\* getNextScreen succeeded is answered with status 500
C8_EncryptFailureIs500 ==
  \A r \in Reqs :
    (pc[r] = "done" /\ Len(log[r]) = 4 /\ ~log[r][4].ok)
      => res[r].sent /\ res[r].status = 500

\* the AES key of the request was recovered and has a length AES takes
CbcKeyUsable(body, e) ==
  KeyRecovered(body, e) /\ Len(RecoverKey(body, e).value) \in {16, 24, 32}

\* decryptRequest failed with the message, and no cipher was created
FailedBeforeCipher(d, message) ==
  /\ ~d.ok
  /\ d.error.message = message
  /\ \A i \in 1..Len(d.ops) : d.ops[i] \notin {"createDecipheriv",
       "decipher.final", "decipher2.final"}

\* C9 as it is stated: in the CBC module every payload whose decoded
\* length is no multiple of 16 fails with the invalid-length error, and
\* every IV whose decoded length is not 16 with the invalid-IV error, in
\* both cases before a cipher is created
C9_LengthErrorsAlways ==
  \A r \in Reqs :
    (env.variant = "CBC" /\ dec[r].called /\ Complete(req[r].body))
      => LET iv == Base64Decode(req[r].body.initial_vector.s)
             data == Base64Decode(req[r].body.encrypted_flow_data.s)
         IN /\ Len(data) % 16 # 0
                 => FailedBeforeCipher(dec[r].result, InvalidDataLengthMessage)
            /\ Len(iv) # 16
                 => FailedBeforeCipher(dec[r].result, InvalidIvLengthMessage)

\* C9, amended: in the CBC module, once the AES key is recovered and has a
\* supported length, an IV whose decoded length is not 16 fails with the
\* invalid-IV error, and with an IV of 16 bytes a payload whose decoded
\* length is no multiple of 16 fails with the invalid-length error, in
\* both cases before a cipher is created
C9_LengthErrorsBeforeCipher ==
  \A r \in Reqs :
    (env.variant = "CBC" /\ dec[r].called /\ CbcKeyUsable(req[r].body, env))
      => LET iv == Base64Decode(req[r].body.initial_vector.s)
             data == Base64Decode(req[r].body.encrypted_flow_data.s)
         IN /\ Len(iv) # 16
                 => FailedBeforeCipher(dec[r].result, InvalidIvLengthMessage)
            /\ (Len(iv) = 16 /\ Len(data) % 16 # 0)
                 => FailedBeforeCipher(dec[r].result, InvalidDataLengthMessage)

\* C9, the case: a payload of a length that is no multiple of 16 was
\* refused by the CBC module
C9_Witness ==
  \E r \in Reqs :
    /\ env.variant = "CBC" /\ dec[r].called
    /\ CbcKeyUsable(req[r].body, env)
    /\ Len(Base64Decode(req[r].body.initial_vector.s)) = 16
    /\ Len(Base64Decode(req[r].body.encrypted_flow_data.s)) % 16 # 0
    /\ dec[r].result.ops = <<"loadPrivateKey", "privateDecrypt">>

\* C10: the cipher follows the length of the recovered key: with 16, 24
\* or 32 bytes the cipher is created, with any other length decryptRequest
\* fails with the unsupported-key-length error, in either module
C10_CipherByKeyLength ==
  \A r \in Reqs :
    (dec[r].called /\ KeyRecovered(req[r].body, env))
      => LET n == Len(RecoverKey(req[r].body, env).value)
             d == dec[r].result
         IN /\ n \in {16, 24, 32}
                 => (d.ok \/ d.error.message # InvalidKeyLength.message)
            /\ n \notin {16, 24, 32}
                 => (~d.ok /\ d.error.message = "Unsupported AES key length")

\* the key file is an encrypted key without a passphrase configured, or
\* its content does not begin with a PEM header
KeyUnloadable(e) ==
  \/ (HasProcType(e.keyFile) \/ HasBeginEncrypted(e.keyFile))
       /\ e.passphrase = "none"
  \/ Readable(e.keyFile) /\ ~StartsWithBegin(e.keyFile)

\* C15: with such a key file loadPrivateKey throws and returns no key, and
\* a request that reaches it is answered 500 without the RSA decryption
\* being attempted
C15_KeyLoadFails ==
  KeyUnloadable(env)
    => /\ ~LoadPrivateKey(env).ok
       /\ \A r \in Reqs :
            (dec[r].called /\ dec[r].result.ops # <<>>)
              => /\ ~dec[r].result.ok
                 /\ dec[r].result.ops = <<"loadPrivateKey">>
                 /\ res[r] = EmptyResponse(500)

\* the calls of privateDecrypt among the calls of a decryptRequest
RsaCalls(ops) == Len(SelectSeq(ops, LAMBDA o : o = "privateDecrypt"))

\* C16: rsaDecryptAesKey tries SHA-256 first and the default hash only
\* after an OAEP decoding error of the first attempt; it returns the first
\* result that succeeds, throws any other error of the first attempt at
\* once, and calls privateDecrypt at most twice for a request
C16_FallbackOrder ==
  \A r \in Reqs :
    (/\ env.variant = "CBC" /\ dec[r].called
     /\ Complete(req[r].body) /\ LoadPrivateKey(env).ok)
      => LET key == LoadPrivateKey(env).value
             text == req[r].body.encrypted_aes_key.s
             first == PrivateDecrypt(key, "sha256", Base64Decode(text))
             second == PrivateDecrypt(key, "sha1", Base64Decode(text))
             got == RsaDecryptAesKey(key, text)
             decoding == ~first.ok /\ first.error.code
                                       = "ERR_OSSL_RSA_OAEP_DECODING_ERROR"
         IN /\ got.tried \in {<<"sha256">>, <<"sha256", "sha1">>}
            /\ got.tried = <<"sha256", "sha1">> <=> decoding
            /\ RsaCalls(dec[r].result.ops) = Len(got.tried)
            /\ first.ok => got.ok /\ got.value = first.value
            /\ (~first.ok /\ ~decoding)
                 => ~got.ok /\ got.error = first.error
                    /\ dec[r].result.error = first.error
            /\ decoding
                 => /\ got.ok = second.ok
                    /\ second.ok => got.value = second.value
                    /\ ~second.ok => dec[r].result.error = second.error

\* C16, the case: the first attempt failed with an OAEP decoding error and
\* the attempt with the default hash recovered the key
C16_Witness ==
  \E r \in Reqs :
    /\ env.variant = "CBC" /\ dec[r].called
    /\ RsaCalls(dec[r].result.ops) = 2
    /\ "createDecipheriv" \in {dec[r].result.ops[i] :
                                  i \in 1..Len(dec[r].result.ops)}

\* the calls made for a decryptRequest include the one named
Made(d, call) == \E i \in 1..Len(d.ops) : d.ops[i] = call

\* C17: in the CBC module the padding is removed by hand only after
\* decipher.final() failed; what is left is taken only when the last
\* decrypted byte is 1..16, and in every other case decryptRequest throws
\* the error of decipher.final() itself
C17_ManualPadding ==
  \A r \in Reqs :
    (/\ env.variant = "CBC" /\ dec[r].called
     /\ CbcKeyUsable(req[r].body, env)
     /\ ValidateBuffers(Base64Decode(req[r].body.initial_vector.s),
                        Base64Decode(req[r].body.encrypted_flow_data.s)).ok)
      => LET key == RecoverKey(req[r].body, env).value
             iv == Base64Decode(req[r].body.initial_vector.s)
             data == Base64Decode(req[r].body.encrypted_flow_data.s)
             auto == CbcDecrypt(key, iv, data, TRUE)
             raw == CbcDecrypt(key, iv, data, FALSE)
             taken == /\ raw.ok /\ Len(raw.value) > 0
                      /\ raw.value[Len(raw.value)] \in 1..16
             d == dec[r].result
         IN /\ Made(d, "decipher2.final") <=> ~auto.ok
            /\ (~auto.ok /\ ~taken) => ~d.ok /\ d.error = auto.error
            /\ (~auto.ok /\ taken)
                 => LET text == TakeFirst(raw.value,
                                  Len(raw.value) - raw.value[Len(raw.value)])
                        json == JsonParse(Utf8Decode(text))
                    IN /\ Made(d, "JSON.parse")
                       /\ d.ok = json.ok
                       /\ d.ok => d.value.decryptedBody = json.value

\* C17, the case: decipher.final() failed, the last byte was no length of
\* a padding, and the error of decipher.final() was thrown
C17_Witness ==
  \E r \in Reqs :
    /\ env.variant = "CBC" /\ dec[r].called /\ ~dec[r].result.ok
    /\ Made(dec[r].result, "decipher2.final")
    /\ dec[r].result.error = BadDecrypt

\* the decrypted body getNextScreen was called with
FormRequest(r) == dec[r].result.value.decryptedBody

\* the request supplied a date under one of its two names
DateSupplied(data) == data.date # "" \/ data.Choose_your_date_d483b0 # ""

\* C18: without an error field, data_exchange on APPOINTMENT answers with
\* APPOINTMENT (is_time_enabled exactly when a date was supplied), on
\* DETAILS with SUMMARY, on SUMMARY with SUCCESS, on another screen with
\* the acknowledgement; an action other than ping, INIT and data_exchange
\* throws and the handler answers 500 with an empty body
C18_ScreenTransitions ==
  \A r \in Reqs :
    (/\ scr[r].called /\ "action" \in DOMAIN FormRequest(r)
     /\ FormRequest(r).data.error = "")
      => LET b == FormRequest(r)
             s == scr[r].result
         IN /\ b.action = "data_exchange"
                 => /\ s.ok
                    /\ b.screen = "APPOINTMENT"
                         => /\ "screen" \in DOMAIN s.value
                            /\ s.value.screen = "APPOINTMENT"
                            /\ s.value.data.is_time_enabled
                                 = DateSupplied(b.data)
                    /\ b.screen = "DETAILS"
                         => /\ "screen" \in DOMAIN s.value
                            /\ s.value.screen = "SUMMARY"
                    /\ b.screen = "SUMMARY"
                         => /\ "screen" \in DOMAIN s.value
                            /\ s.value.screen = "SUCCESS"
                    /\ b.screen \notin {"APPOINTMENT", "DETAILS", "SUMMARY"}
                         => s.value = [data |-> [acknowledged |-> TRUE]]
            /\ b.action \notin {"ping", "INIT", "data_exchange"}
                 => /\ ~s.ok
                    /\ pc[r] = "done" => res[r] = EmptyResponse(500)

\* getNextScreen was called for data_exchange on screen SUMMARY
SummaryRequest(r) ==
  /\ scr[r].called /\ "action" \in DOMAIN FormRequest(r)
  /\ FormRequest(r).action = "data_exchange"
  /\ FormRequest(r).screen = "SUMMARY"

\* the SUCCESS screen with the flow_token of the request, a booking in it
\* only when the API answered with status "success" and data
SuccessScreen(r) ==
  LET s == scr[r].result
  IN /\ s.ok
     /\ "screen" \in DOMAIN s.value /\ s.value.screen = "SUCCESS"
     /\ s.value.data.flow_token = FormRequest(r).flow_token
     /\ (s.value.data.booking_id # "null" \/ s.value.data.meeting_url # "null")
          => scr[r].api = "success"

\* C19 as stated: data_exchange on SUMMARY always yields the SUCCESS screen
\* with the request's flow_token, whatever the booking call did, and a
\* booking only for an answer with status "success" and data
C19_SummaryAlways == \A r \in Reqs : SummaryRequest(r) => SuccessScreen(r)

\* C19, amended: the same for requests whose data carries no error field
C19_SummaryWithoutError ==
  \A r \in Reqs :
    (SummaryRequest(r) /\ FormRequest(r).data.error = "") => SuccessScreen(r)

\* C19, the case: the booking call failed and the SUCCESS screen was
\* returned without a booking
C19_Witness ==
  \E r \in Reqs :
    /\ SummaryRequest(r) /\ FormRequest(r).data.error = ""
    /\ scr[r].api = "error" /\ FormRequest(r).flow_token = "tokB"
    /\ scr[r].result.ok /\ scr[r].result.value.data.booking_id = "null"

\* C20: every request that reaches the handler is answered: when the
\* handler has run to its end, on whichever path, a response has been sent
\* for the request
C20_EveryRequestAnswered ==
  \A r \in Reqs : pc[r] = "done" => res[r].sent

(***************************************************************************)
(* SigSpec: isRequestSignatureValid applied to one request.                *)
(***************************************************************************)
\* bytes of the raw bodies: "[", the two bytes of a well-formed two-byte
\* sequence (U+00E9), and a byte that no UTF-8 text contains
RawAlphabet == {91, 195, 169, 255}

\* bytes a mutation may put in place of a byte of the body
MutationBytes == RawAlphabet \cup {0, 93, 254}

\* characters a mutation may put in place of a character of the header
MutationChars ==
  {HexLower[i] : i \in 1..16} \cup {HexUpper[i] : i \in 1..16}
    \cup {"g", "=", " ", "S"}

BodiesUpTo(n) == UNION {[1..k -> RawAlphabet] : k \in 0..n}

ByteMutations(b) ==
  {[b EXCEPT ![i] = x] : i \in 1..Len(b), x \in MutationBytes} \ {b}

TextMutations(t) ==
  {[t EXCEPT ![i] = c] : i \in 1..Len(t), c \in MutationChars} \ {t}

\* headers whose signature decodes to another length than the digest
OtherLengthHeaders(secret, b) ==
  LET d == HmacSha256(secret, b)
  IN {[present |-> TRUE, value |-> SignaturePrefix \o HexEncode(x)] :
        x \in {<<>>, TakeFirst(d, DigestLen - 1), d \o <<0>>}}
     \cup {[present |-> TRUE,
            value |-> TakeFirst(SignatureFor(secret, b).value,
                                7 + (2 * DigestLen) - 1)]}

SigInputs ==
  LET mk(c, b, buf, h, s) ==
        [case |-> c, base |-> b, buf |-> buf, header |-> h, secret |-> s,
         outcome |-> "pending", next |-> "authenticate", status |-> 0]
  IN UNION {
       {mk("exact", b, b, SignatureFor(s, b), s) : s \in {SecretA, SecretB}}
       \cup {mk("other_secret", b, b, SignatureFor(SecretB, b), SecretA)}
       \cup {mk("mut_body", b, m, SignatureFor(SecretA, b), SecretA) :
               m \in ByteMutations(b)}
       \cup (IF Len(b) <= 1
             THEN {mk("mut_sig", b, b,
                      [present |-> TRUE, value |-> t], SecretA) :
                     t \in TextMutations(SignatureFor(SecretA, b).value)}
             ELSE {})
       \cup {mk("other_len", b, b, h, SecretA) :
               h \in OtherLengthHeaders(SecretA, b)}
       \cup {mk("no_header", b, b, NoHeader, s) : s \in {NoSecret, SecretA}}
       \cup {mk("no_secret", b, b, h, NoSecret) :
               h \in {SignatureFor(SecretA, b),
                      [present |-> TRUE, value |-> <<"x">>]}}
       : b \in BodiesUpTo(MaxBodyLen)}

SigInit == sig \in SigInputs /\ rt = RtIdle /\ HandlerIdle /\ FlowIdle

\* the request reaches the signature check of the handler (lines 88-95):
\* what isRequestSignatureValid gives, where the handler goes and the
\* status it answers with, 0 when it does not answer
SigVerify ==
  /\ sig.outcome = "pending"
  /\ LET outcome == IsRequestSignatureValid(sig.secret, sig.header,
                                            RawBodyOf(sig.buf))
     IN sig' = [sig EXCEPT !.outcome = outcome,
                           !.next = IF outcome = "throw" THEN "rejected"
                                    ELSE AfterSignature(outcome = "true"),
                           !.status = IF outcome = "false"
                                      THEN SignatureInvalidResponse.status
                                      ELSE 0]
  /\ UNCHANGED <<handlerVars, rt, heap, calls>>

SigNext == SigVerify

SigSpec == SigInit /\ [][SigNext]_vars

SigDone == sig.outcome \in {"true", "false", "throw"}

\* C4: for a configured secret S and a raw body B the check returns true
\* for the header "sha256=" followed by the hex HMAC-SHA256 of B under S,
\* false for B or the signature text changed in one byte and for a
\* signature that decodes to another length than the digest, and it never
\* throws
C4_SignatureCheck ==
  SigDone =>
    /\ sig.case = "exact" => sig.outcome = "true"
    /\ sig.case \in {"mut_body", "mut_sig", "other_len"}
         => sig.outcome = "false"
    /\ sig.outcome # "throw"

\* C12: without a configured secret the check returns true for every
\* request, whatever its header and body, and the handler goes on to
\* decryptRequest without answering
C12_NoSecretAccepts ==
  (SigDone /\ sig.secret = NoSecret)
    => sig.outcome = "true" /\ sig.next = "decrypt" /\ sig.status = 0

\* C12, the case: a request without header was checked without a secret
C12_Witness ==
  SigDone /\ sig.secret = NoSecret /\ ~sig.header.present

\* C13: with a configured secret, a request whose header is absent or does
\* not begin with "sha256=" fails the check and is answered 432, whatever
\* the rest of the header and the body are
C13_BadHeaderRejected ==
  (/\ SigDone
   /\ sig.secret # NoSecret
   /\ ~sig.header.present \/ ~StartsWith(sig.header.value, SignaturePrefix))
    => sig.outcome = "false" /\ sig.next = "done" /\ sig.status = 432

\* C13, the case: a header that is the right signature behind a wrong
\* prefix was checked
C13_Witness ==
  /\ SigDone /\ sig.secret # NoSecret /\ sig.header.present
  /\ ~StartsWith(sig.header.value, SignaturePrefix)
  /\ DropFirst(sig.header.value, 7)
       = HexEncode(HmacSha256(sig.secret, sig.buf))

(***************************************************************************)
(* RoundTripSpec: encryptResponse, and the peer decrypting what it made.   *)
(***************************************************************************)
IvB == [i \in 1..16 |-> 17 * (i - 1)]

\* largest offset of the IVs of the round trips
MaxIvOffset == 16

\* IVs that between them hold every byte value
IvOf(a) == [i \in 1..16 |-> (a + (17 * (i - 1))) % 256]

\* the IV the peer decrypts a response with: the IV of the request, as the
\* module uses it for the response
PeerIv(variant, iv) ==
  IF variant = "GCM" THEN [i \in 1..Len(iv) |-> FlipByte(iv[i])] ELSE iv

\* the decryption of a response by the steps decryptRequest applies to a
\* payload, under key K and the IV given
DecryptPayload(variant, out, K, iv) ==
  IF variant = "GCM"
  THEN LET made == CreateCipherError("aes-128-gcm", K, iv)
       IN IF ~made.ok THEN Thrown(made.error, <<>>)
          ELSE GcmDecryptAndParse(K, iv, Base64Decode(out.s), <<>>)
  ELSE CbcDecryptAndParse(K, [initial_vector |-> Str(Base64Encode(iv)),
                              encrypted_flow_data |-> out.encrypted_flow_data],
                          <<>>)

RtInputs ==
  {[stage |-> "start", variant |-> v, V |-> d, K |-> k, IV |-> iv] :
     v \in {"GCM", "CBC"},
     d \in {JsonDocs[i] : i \in 1..Len(JsonDocs)} \cup {NullBody},
     k \in {Key16, Key24, Key32},
     iv \in {Iv16, IvB} \cup {IvOf(a) : a \in 0..MaxIvOffset}}

RtInit == rt \in RtInputs /\ sig = SigIdle /\ HandlerIdle /\ FlowIdle

\* encryptResponse(V, K, IV) of the module
RtEncrypt ==
  /\ rt.stage = "start"
  /\ rt' = [stage |-> "encrypted", variant |-> rt.variant, V |-> rt.V,
            K |-> rt.K, IV |-> rt.IV,
            out |-> EncryptResponse([variant |-> rt.variant], rt.V, rt.K,
                                    rt.IV, FALSE)]
  /\ UNCHANGED <<handlerVars, sig, heap, calls>>

\* the peer decrypts what encryptResponse returned
RtDecrypt ==
  /\ rt.stage = "encrypted"
  /\ rt.out.ok
  /\ rt' = [stage |-> "decrypted", variant |-> rt.variant, V |-> rt.V,
            K |-> rt.K, IV |-> rt.IV, out |-> rt.out,
            back |-> DecryptPayload(rt.variant, rt.out.value, rt.K,
                                    PeerIv(rt.variant, rt.IV))]
  /\ UNCHANGED <<handlerVars, sig, heap, calls>>

RtNext == RtEncrypt \/ RtDecrypt

RoundTripSpec == RtInit /\ [][RtNext]_vars

\* C6: for a JSON value V, a key K of 16, 24 or 32 bytes and an IV of 16
\* bytes, encryptResponse(V, K, IV) returns, and decrypting what it
\* returned under K and the IV of the module gives V again, in the CBC and
\* in the GCM module
C6_RoundTrip ==
  /\ rt.stage = "encrypted" => rt.out.ok
  /\ rt.stage = "decrypted"
       => rt.back.ok /\ rt.back.value.decryptedBody = rt.V

\* C14: the IV encryptResponse of the GCM module encrypts with is the IV
\* of the request with every byte b replaced by 255 - b, a byte again, and
\* flipping twice gives the IV back
C14_IvFlip ==
  (rt.stage \in {"encrypted", "decrypted"} /\ rt.variant = "GCM")
    => LET f == FlippedIv(rt.IV)
           not == [i \in 1..Len(rt.IV) |-> 255 - rt.IV[i]]
       IN /\ f = not
          /\ \A i \in 1..Len(f) : f[i] \in 0..255
          /\ FlippedIv(f) = rt.IV
          /\ rt.out.ok
               => Base64Decode(rt.out.value.s)
                    = GcmEncrypt(rt.K, not, Utf8Encode(JsonStringify(rt.V)))

\* C14, the case: the GCM module encrypted under an IV that holds the
\* bytes 0 and 255
C14_Witness ==
  /\ rt.stage = "encrypted" /\ rt.variant = "GCM" /\ rt.out.ok
  /\ \E i, j \in 1..16 : rt.IV[i] = 0 /\ rt.IV[j] = 255

(***************************************************************************)
(* ConcSpec: two requests in the handler at the same time.  The handler    *)
(* of a request gives way at its await; the steps of the two handlers are  *)
(* interleaved in every order.                                             *)
(***************************************************************************)
KeyB16 == [i \in 1..16 |-> 50 + i]

\* the requests of the two clients: different keys, IVs and bodies, a key
\* no cipher of the module may take, and a body the logging throws on
ConcEnvelopes(mode) ==
  {Envelope(ClientEncrypt(mode, c[1], c[2], PlainText(c[3], 0)),
            ServerKeyPair, "sha256", c[1], c[2]) :
     c \in {<<Key16, Iv16, PingBody>>,
            <<Key16, IvB, FlowBody("data_exchange", "SUMMARY", FilledData,
                                   "tokB")>>,
            <<KeyB16, Iv16, FlowBody("INIT", "", EmptyData, "tokA")>>,
            <<Key20, Iv16, PingBody>>,
            <<KeyB16, IvB, FlowBody("BACK", "APPOINTMENT", EmptyData,
                                    "tokA")>>}}
  \cup {[PingEnvelope(mode) EXCEPT !.encrypted_flow_data = NonString]}

ConcInit ==
  /\ env \in {e \in Deployments :
                e.APP_SECRET = NoSecret /\ e.keyFile = "pkcs8"}
  /\ req \in [{1, 2} -> {Request(NoHeader, b) : b \in ConcEnvelopes(env.variant)}]
  /\ pc = [r \in {1, 2} |-> "received"]
  /\ log = [r \in {1, 2} |-> <<>>]
  /\ dec = [r \in {1, 2} |-> NotCalled]
  /\ scr = [r \in {1, 2} |-> NotCalled]
  /\ res = [r \in {1, 2} |-> NoResponse]
  /\ sig = SigIdle
  /\ rt = RtIdle
  /\ FlowIdle

ConcSpec == ConcInit /\ [][Next]_vars

\* C11: under every interleaving of two requests, the envelope a request
\* is answered with is what encryptResponse makes of its screen under the
\* key and the IV that decryptRequest recovers from the body of that same
\* request, and what the handler holds as decrypted request is the result
\* for its own body
C11_OwnKeyAndIv ==
  \A r \in Reqs :
    /\ dec[r].called => dec[r].result = DecryptRequest(req[r].body, env)
    /\ res[r].body = "envelope"
         => LET d == DecryptRequest(req[r].body, env)
            IN /\ d.ok
               /\ res[r].payload =
                    EncryptResponse(env, scr[r].result.value,
                                    d.value.aesKeyBuffer,
                                    d.value.initialVectorBuffer, FALSE).value

\* C11, the case: two requests with different keys, both in the handler at
\* once, were both answered with an envelope
C11_Witness ==
  /\ Reqs = {1, 2}
  /\ res[1].body = "envelope" /\ res[2].body = "envelope"
  /\ dec[1].result.value.aesKeyBuffer # dec[2].result.value.aesKeyBuffer
  /\ dec[1].result.value.initialVectorBuffer
       # dec[2].result.value.initialVectorBuffer

(***************************************************************************)
(* FlowSpec: calls of getNextScreen, one after another and overlapping,    *)
(* against the objects of flow.js.                                         *)
(***************************************************************************)
MaxCalls == 2

\* the call reaches an await: getAvailableTimeSlotsForDate (line 269) or
\* createBooking (line 334)
Awaits(body) ==
  /\ "action" \in DOMAIN body
  /\ body.action = "data_exchange"
  /\ NormalizedData(body.data).error = ""
  /\ \/ body.screen = "SUMMARY"
     \/ body.screen = "APPOINTMENT" /\ NormalizedData(body.data).date # ""

\* the response object of call c and the object of its data
ResponseId(c) == <<c, "response">>

DataId(c) == <<c, "data">>

\* return {data: {fields}}
ReturnData(h, c, fields) ==
  ObjectLiteral(ObjectLiteral(h, DataId(c), fields), ResponseId(c),
                [data |-> Ref(DataId(c))])

\* return {...SCREEN_RESPONSES.X, data: {fields}}
ReturnScreen(h, c, screen, fields) ==
  SpreadLiteral(ObjectLiteral(h, DataId(c), fields), ResponseId(c),
                <<0, screen>>, [data |-> Ref(DataId(c))])

\* return {...SCREEN_RESPONSES.APPOINTMENT,
\*         data: {...SCREEN_RESPONSES.APPOINTMENT.data, fields}}
ReturnAppointment(h, c, fields) ==
  SpreadLiteral(SpreadLiteral(h, DataId(c), <<0, "APPOINTMENT.data">>,
                              fields),
                ResponseId(c), <<0, "APPOINTMENT">>,
                [data |-> Ref(DataId(c))])

\* the heap when call c of getNextScreen(body) returns, api being what the
\* external API did; the data of the SUMMARY and SUCCESS screens are
\* literals made of the request alone (lines 322-328 and 386-409)
HeapAfterCall(h, c, body, api) ==
  LET nd == NormalizedData(body.data)
      dates == ObjectLiteral(h, <<c, "date">>, Array("NEXT_FIVE_DAYS"))
  IN IF body.action = "ping"
     THEN ReturnData(h, c, [status |-> "active"])
     ELSE IF nd.error # ""
     THEN ReturnData(h, c, [acknowledged |-> TRUE])
     ELSE IF body.action = "INIT"
     THEN ReturnAppointment(dates, c,
            [date |-> Ref(<<c, "date">>), is_date_enabled |-> TRUE,
             is_time_enabled |-> FALSE])
     ELSE IF body.screen = "APPOINTMENT"
     THEN LET static == nd.date # ""
                          /\ GetAvailableTimeSlotsForDate(api)
                               = "STATIC_TIMES"
              times == IF static THEN dates
                       ELSE ObjectLiteral(dates, <<c, "time">>,
                              Array(IF nd.date # "" THEN "CAL_SLOTS"
                                    ELSE "EMPTY"))
          IN ReturnAppointment(times, c,
               [name |-> nd.name, email |-> nd.email,
                date |-> Ref(<<c, "date">>), is_date_enabled |-> TRUE,
                is_time_enabled |-> nd.date # "",
                time |-> IF static THEN Ref(<<0, "APPOINTMENT.data.time">>)
                         ELSE Ref(<<c, "time">>)])
     ELSE IF body.screen = "DETAILS"
     THEN ReturnScreen(h, c, "SUMMARY", GetNextScreen(body, api).value.data)
     ELSE IF body.screen = "SUMMARY"
     THEN ReturnScreen(h, c, "SUCCESS", GetNextScreen(body, api).value.data)
     ELSE ReturnData(h, c, [acknowledged |-> TRUE])

\* the call throws: a body that is null, an unhandled action, a field of
\* DETAILS that is no string
CallThrows(body, api) == ~GetNextScreen(body, api).ok

\* what JSON.stringify sees of the object a call returned
ResponseValue(h, id) ==
  LET o == h[id]
      d == h[o.data.ref]
  IN IF "screen" \notin DOMAIN o THEN [data |-> d]
     ELSE IF o.screen = "APPOINTMENT"
     THEN [screen |-> o.screen,
           data |-> [d EXCEPT !.date = h[d.date.ref].items,
                              !.time = h[d.time.ref].items]]
     ELSE [screen |-> o.screen, data |-> d]

Pending(body) ==
  [body |-> body, stage |-> "awaiting", api |-> "pending"]

Settled(body, api) ==
  [body |-> body, api |-> api,
   stage |-> IF CallThrows(body, api) THEN "thrown" ELSE "returned"]

\* getNextScreen(body) is called and runs to its first await or to its end
FlowCall(body) ==
  /\ Len(calls) < MaxCalls
  /\ IF Awaits(body)
     THEN /\ calls' = Append(calls, Pending(body))
          /\ heap' = heap
     ELSE \E api \in ApiOutcomes(body) :
            /\ calls' = Append(calls, Settled(body, api))
            /\ heap' = IF CallThrows(body, api) THEN heap
                       ELSE HeapAfterCall(heap, Len(calls) + 1, body, api)
  /\ UNCHANGED <<handlerVars, sig, rt>>

\* the promise call c awaits has settled and the call runs to its end
FlowResume(c) ==
  /\ calls[c].stage = "awaiting"
  /\ \E api \in ApiOutcomes(calls[c].body) :
       /\ calls' = [calls EXCEPT ![c] = Settled(calls[c].body, api)]
       /\ heap' = IF CallThrows(calls[c].body, api) THEN heap
                  ELSE HeapAfterCall(heap, c, calls[c].body, api)
  /\ UNCHANGED <<handlerVars, sig, rt>>

FlowInit == FlowIdle /\ HandlerIdle /\ sig = SigIdle /\ rt = RtIdle

FlowNext ==
  \/ \E body \in FlowBodies : FlowCall(body)
  \/ \E c \in 1..Len(calls) : FlowResume(c)

FlowSpec == FlowInit /\ [][FlowNext]_vars

\* C21: after every sequence of calls of getNextScreen, overlapping ones
\* included, the objects of SCREEN_RESPONSES are as flow.js defined them,
\* and what a call returned is what getNextScreen makes of its own request
C21_TemplatesUnchanged ==
  /\ \A id \in DOMAIN SCREEN_RESPONSES : heap[id] = SCREEN_RESPONSES[id]
  /\ \A c \in 1..Len(calls) :
       calls[c].stage = "returned"
         => ResponseValue(heap, ResponseId(c))
              = GetNextScreen(calls[c].body, calls[c].api).value

\* C21, the case: a call for the APPOINTMENT screen with a name was still
\* awaiting when a first opening of the flow was answered, and returned
\* after it
C21_Witness ==
  /\ Len(calls) = 2
  /\ calls[1].stage = "returned" /\ calls[2].stage = "returned"
  /\ calls[1].body.action = "data_exchange"
  /\ calls[1].body.screen = "APPOINTMENT" /\ calls[1].body.data.name = "Ann"
  /\ calls[2].body.action = "INIT"
  /\ heap[DataId(1)].name = "Ann" /\ heap[DataId(2)].name = ""

====
